---- MODULE Spec2Model ----
(***************************************************************************)
(* osrm-interface: the request builders of src/services (Route, Trip,      *)
(* Match, Table, Nearest), their validating build step, the dispatch of a  *)
(* built request to one of the three backends, what the backends do with   *)
(* the engine's answer, the value types, and the native engine's handle.   *)
(***************************************************************************)
EXTENDS Integers, Sequences, FiniteSets, TLC

\* Longest point / option array drawn as an input.
MaxLen == 2
\* Number of setter calls made on one builder before it is thrown away.
MaxSetters == 2

VARIABLES
    b,      \* the live builder (a record; kind = "None" before any is created)
    nset,   \* setter calls made on the live builder
    built,  \* the builder as it was when build was last called on it
    res,    \* outcome of the latest build call: the request value, or the error
    rcv,    \* the latest request a backend was called with
    call,   \* the latest call of a constructor or decoder of the value types,
            \* or of an engine method with the answer it was given
    osrm    \* the handle of the native engine, the values and threads that hold it

vars == <<b, nset, built, res, rcv, call, osrm>>

----------------------------------------------------------------------------
\* Option<T>: None is the empty set, Some(x) the singleton.
None == {}
Some(x) == {x}
IsSome(o) == o # {}
Unwrap(o) == CHOOSE x \in o : TRUE

\* f64: the finite values used as inputs, and NaN. Every comparison with NaN
\* is false, as in IEEE 754.
Num(n) == [nan |-> FALSE, v |-> n]
NaN == [nan |-> TRUE, v |-> 0]
F64 == {Num(0 - 1), Num(0), Num(1), NaN}
FLt(x, y) == ~x.nan /\ ~y.nan /\ x.v < y.v
FLe(x, y) == ~x.nan /\ ~y.nan /\ x.v <= y.v
FGe(x, y) == ~x.nan /\ ~y.nan /\ x.v >= y.v

\* All sequences over S of length 0..MaxLen.
Arrays(S) == UNION {[1..n -> S] : n \in 0..MaxLen}

\* Validated coordinates: point i of an input slice.
Pt(i) == [latitude |-> i, longitude |-> 10 + i]
PointArrays == {[i \in 1..n |-> Pt(i)] : n \in 0..MaxLen}

GeometryType == {"Polyline", "Polyline6", "GeoJSON"}
OverviewZoom == {"Simplified", "Full", "False"}
Snapping == {"Default", "Any"}
Approach == {"Curb", "Unrestricted"}
DefaultBearing == [bearing |-> 0, range |-> 180]
Exclude == {[mode |-> "Car", class |-> "Toll"],
            [mode |-> "Bicycle", class |-> "Ferry"]}

\* Per-point option arrays drawn as inputs: one of each length 0..MaxLen for
\* the options build only measures; for radiuses every array of those lengths
\* with at most one element set; for exclude every array over Exclude.
BearingArrays ==
    {[i \in 1..n |-> IF i = 1 THEN None ELSE Some(DefaultBearing)] : n \in 0..MaxLen}
HintArrays ==
    {[i \in 1..n |-> IF i = 1 THEN Some("hint") ELSE None] : n \in 0..MaxLen}
ApproachArrays ==
    {[i \in 1..n |-> IF i = 1 THEN "Curb" ELSE "Unrestricted"] : n \in 0..MaxLen}
RadiusArrays ==
    {[i \in 1..n |-> IF i = k THEN r ELSE None] :
        n \in 0..MaxLen, k \in 1..MaxLen,
        r \in {None, Some(Num(0 - 1)), Some(Num(0)), Some(NaN)}}
ExcludeArrays == Arrays(Exclude)

Backends == {"native", "remote", "mock"}

----------------------------------------------------------------------------
\* Results of build.
NoResult == [kind |-> "None"]
Ok(r) == [kind |-> "Ok", req |-> r]
Err(e) == [kind |-> "Err", err |-> e, tag |-> "", idx |-> 0, len |-> 0]
ErrDim(t) == [kind |-> "Err", err |-> "DimensionMismatch", tag |-> t, idx |-> 0, len |-> 0]
ErrWaypoint(i, n) ==
    [kind |-> "Err", err |-> "WaypointIndexOutOfBounds", tag |-> "", idx |-> i, len |-> n]

NoBuilder == [kind |-> "None"]
NoCall == [fn |-> "none"]
NotReceived == [backend |-> "none"]

\* A radius of exactly 0 refused as well.
RadiusesPositive(r) ==
    \A i \in 1..Len(r) : r[i] = None \/ FLt(Num(0), Unwrap(r[i]))

\* radiuses.iter().all(|r| r.is_none_or(|v| v >= 0.0))
RadiusesNonNegative(r) ==
    \A i \in 1..Len(r) : r[i] = None \/ FGe(Unwrap(r[i]), Num(0))

\* Only a list that starts with a Car class compared with its other elements.
ExcludeSameTypeCarOnly(ex) ==
    ex[1].mode = "Car" => \A i \in 1..Len(ex) : ex[i].mode = "Car"

\* match exclude[0] { Car(_) => all Car, Bicycle(_) => all Bicycle }
ExcludeSameType(ex) ==
    IF ex[1].mode = "Car"
    THEN \A i \in 1..Len(ex) : ex[i].mode = "Car"
    ELSE \A i \in 1..Len(ex) : ex[i].mode = "Bicycle"

\* if let Some(exclude) = self.exclude { if !exclude.is_empty() { if !match ... } } }
ExcludeRejected(o) ==
    IsSome(o) /\ Unwrap(o) # <<>> /\ ~ExcludeSameType(Unwrap(o))

\* A floor of one point instead of two.
TooFewPointsFloorOne(pts) == Len(pts) < 1

\* if self.points.len() < 2 { return Err(InsufficientPoints) }
TooFewPoints(pts) == Len(pts) < 2

\* Only the None mode counted as lacking durations.
LacksDurationNoneOnly(a) == a \in {"None"}

\* matches!(self.annotations, TableAnnotation::None | TableAnnotation::Distance)
LacksDuration(a) == a \in {"None", "Distance"}

\* Only an array longer than the point array counted as a mismatch.
LenMismatchOnlyLonger(o, pts) == IsSome(o) /\ Len(Unwrap(o)) > Len(pts)

\* if let Some(a) = self.<option> { if a.len() != self.points.len() { ... } }
LenMismatch(o, pts) == IsSome(o) /\ Len(Unwrap(o)) # Len(pts)

----------------------------------------------------------------------------
\* A setter moves the builder, changes one field and hands the builder back.
\* A request built earlier is a value of its own and is left as it is.
SetField(k, f, v) ==
    /\ b.kind = k
    /\ rcv = NotReceived
    /\ nset < MaxSetters
    /\ b' = [b EXCEPT ![f] = v]
    /\ nset' = nset + 1
    /\ UNCHANGED <<built, res, rcv, call, osrm>>

\* <Service>RequestBuilder::new: a fresh builder; nothing has been built from
\* it or dispatched yet. One builder is followed from its creation, through
\* its setter and build calls, to the backend calls made with its request.
Created(nb) ==
    /\ b = NoBuilder
    /\ b' = nb
    /\ nset' = 0
    /\ built' = NoBuilder
    /\ res' = NoResult
    /\ rcv' = NotReceived
    /\ UNCHANGED <<call, osrm>>

----------------------------------------------------------------------------
\* RouteRequestBuilder

RouteBuilderNew(points) ==
    [kind |-> "Route", points |-> points,
     geometry |-> "Polyline", overview |-> "Simplified",
     alternatives |-> FALSE, steps |-> FALSE, annotations |-> FALSE,
     continue_straight |-> TRUE,
     bearings |-> None, radiuses |-> None, generate_hints |-> TRUE,
     hints |-> None, approaches |-> None, exclude |-> None,
     snapping |-> None, skip_waypoints |-> FALSE]

RouteNew == \E p \in PointArrays : Created(RouteBuilderNew(p))
RoutePoints == \E p \in PointArrays : SetField("Route", "points", p)
RouteAlternatives == \E v \in BOOLEAN : SetField("Route", "alternatives", v)
RouteSteps == \E v \in BOOLEAN : SetField("Route", "steps", v)
RouteAnnotations == \E v \in BOOLEAN : SetField("Route", "annotations", v)
RouteGeometry == \E v \in GeometryType : SetField("Route", "geometry", v)
RouteOverview == \E v \in OverviewZoom : SetField("Route", "overview", v)
RouteContinueStraight == \E v \in BOOLEAN : SetField("Route", "continue_straight", v)
RouteBearings == \E a \in BearingArrays : SetField("Route", "bearings", Some(a))
RouteRadiuses == \E a \in RadiusArrays : SetField("Route", "radiuses", Some(a))
RouteGenerateHints == \E v \in BOOLEAN : SetField("Route", "generate_hints", v)
RouteHints == \E a \in HintArrays : SetField("Route", "hints", Some(a))
RouteApproaches == \E a \in ApproachArrays : SetField("Route", "approaches", Some(a))
RouteExclude == \E a \in ExcludeArrays : SetField("Route", "exclude", Some(a))
RouteSnapping == \E v \in Snapping : SetField("Route", "snapping", Some(v))
RouteSkipWaypoints == \E v \in BOOLEAN : SetField("Route", "skip_waypoints", v)

RouteRequest(s) ==
    [kind |-> "Route", points |-> s.points,
     alternatives |-> s.alternatives, steps |-> s.steps,
     geometry |-> s.geometry, overview |-> s.overview,
     annotations |-> s.annotations, continue_straight |-> s.continue_straight,
     bearings |-> s.bearings, radiuses |-> s.radiuses,
     generate_hints |-> s.generate_hints, hints |-> s.hints,
     approaches |-> s.approaches, exclude |-> s.exclude,
     snapping |-> s.snapping, skip_waypoints |-> s.skip_waypoints]

RouteBuild(s) ==
    IF TooFewPoints(s.points) THEN Err("InsufficientPoints")
    ELSE IF LenMismatch(s.bearings, s.points) THEN ErrDim("Bearings")
    ELSE IF LenMismatch(s.radiuses, s.points) THEN ErrDim("Radiuses")
    ELSE IF IsSome(s.radiuses) /\ ~RadiusesNonNegative(Unwrap(s.radiuses))
         THEN Err("NegativeRadius")
    ELSE IF LenMismatch(s.hints, s.points) THEN ErrDim("Hints")
    ELSE IF LenMismatch(s.approaches, s.points) THEN ErrDim("Approaches")
    ELSE IF ExcludeRejected(s.exclude) THEN Err("DifferentExcludeTypes")
    ELSE Ok(RouteRequest(s))

----------------------------------------------------------------------------
\* TripRequestBuilder

TripSource == {"Any", "First"}
TripDestination == {"Any", "Last"}

TripBuilderNew(points) ==
    [kind |-> "Trip", points |-> points,
     steps |-> FALSE, annotations |-> FALSE,
     geometry |-> "Polyline", overview |-> "False",
     roundtrip |-> TRUE, source |-> "Any", destination |-> "Any",
     bearings |-> None, radiuses |-> None, generate_hints |-> TRUE,
     hints |-> None, approaches |-> None, exclude |-> None,
     snapping |-> None, skip_waypoints |-> FALSE]

TripNew == \E p \in PointArrays : Created(TripBuilderNew(p))
TripPoints == \E p \in PointArrays : SetField("Trip", "points", p)
TripSteps == \E v \in BOOLEAN : SetField("Trip", "steps", v)
TripAnnotations == \E v \in BOOLEAN : SetField("Trip", "annotations", v)
TripGeometry == \E v \in GeometryType : SetField("Trip", "geometry", v)
TripOverview == \E v \in OverviewZoom : SetField("Trip", "overview", v)
TripRoundtrip == \E v \in BOOLEAN : SetField("Trip", "roundtrip", v)
TripSetSource == \E v \in TripSource : SetField("Trip", "source", v)
TripSetDestination == \E v \in TripDestination : SetField("Trip", "destination", v)
TripBearings == \E a \in BearingArrays : SetField("Trip", "bearings", Some(a))
TripRadiuses == \E a \in RadiusArrays : SetField("Trip", "radiuses", Some(a))
TripGenerateHints == \E v \in BOOLEAN : SetField("Trip", "generate_hints", v)
TripHints == \E a \in HintArrays : SetField("Trip", "hints", Some(a))
TripApproaches == \E a \in ApproachArrays : SetField("Trip", "approaches", Some(a))
TripExclude == \E a \in ExcludeArrays : SetField("Trip", "exclude", Some(a))
TripSnapping == \E v \in Snapping : SetField("Trip", "snapping", Some(v))
TripSkipWaypoints == \E v \in BOOLEAN : SetField("Trip", "skip_waypoints", v)

TripRequest(s) ==
    [kind |-> "Trip", points |-> s.points,
     steps |-> s.steps, annotations |-> s.annotations,
     geometry |-> s.geometry, overview |-> s.overview,
     roundtrip |-> s.roundtrip, source |-> s.source,
     destination |-> s.destination,
     bearings |-> s.bearings, radiuses |-> s.radiuses,
     generate_hints |-> s.generate_hints, hints |-> s.hints,
     approaches |-> s.approaches, exclude |-> s.exclude,
     snapping |-> s.snapping, skip_waypoints |-> s.skip_waypoints]

TripBuild(s) ==
    IF TooFewPoints(s.points) THEN Err("InsufficientPoints")
    ELSE IF LenMismatch(s.bearings, s.points) THEN ErrDim("Bearings")
    ELSE IF LenMismatch(s.radiuses, s.points) THEN ErrDim("Radiuses")
    ELSE IF IsSome(s.radiuses) /\ ~RadiusesNonNegative(Unwrap(s.radiuses))
         THEN Err("NegativeRadius")
    ELSE IF LenMismatch(s.hints, s.points) THEN ErrDim("Hints")
    ELSE IF LenMismatch(s.approaches, s.points) THEN ErrDim("Approaches")
    ELSE IF ExcludeRejected(s.exclude) THEN Err("DifferentExcludeTypes")
    ELSE Ok(TripRequest(s))

----------------------------------------------------------------------------
\* MatchRequestBuilder

MatchGapsBehaviour == {"Split", "Ignore"}
TimestampArrays == Arrays({0, 1})
\* Lists of at most two indices, each inside or just past the longest slice.
WaypointArrays == UNION {[1..n -> 0..MaxLen] : n \in 0..2}

\* Strictly increasing instead of non-decreasing.
IsSortedStrict(t) == \A i \in 1..(Len(t) - 1) : t[i] < t[i + 1]

\* <[u64]>::is_sorted: every element is <= its successor.
IsSorted(t) == \A i \in 1..(Len(t) - 1) : t[i] <= t[i + 1]

\* The smallest index instead of the largest.
MinOf(w) == CHOOSE m \in {w[i] : i \in 1..Len(w)} : \A i \in 1..Len(w) : m <= w[i]

\* Iterator::max over a non-empty slice of indices.
MaxOf(w) == CHOOSE m \in {w[i] : i \in 1..Len(w)} : \A i \in 1..Len(w) : w[i] <= m

\* A Match builder whose gaps default is Ignore instead of Split.
MatchBuilderNewGapsIgnore(points) ==
    [kind |-> "Match", points |-> points,
     geometry |-> "Polyline", overview |-> "Simplified",
     steps |-> FALSE, annotations |-> FALSE,
     timestamps |-> None, gaps |-> "Ignore", tidy |-> FALSE,
     waypoints |-> None,
     bearings |-> None, radiuses |-> None, generate_hints |-> TRUE,
     hints |-> None, approaches |-> None, exclude |-> None,
     snapping |-> None, skip_waypoints |-> FALSE]

MatchBuilderNew(points) ==
    [kind |-> "Match", points |-> points,
     geometry |-> "Polyline", overview |-> "Simplified",
     steps |-> FALSE, annotations |-> FALSE,
     timestamps |-> None, gaps |-> "Split", tidy |-> FALSE,
     waypoints |-> None,
     bearings |-> None, radiuses |-> None, generate_hints |-> TRUE,
     hints |-> None, approaches |-> None, exclude |-> None,
     snapping |-> None, skip_waypoints |-> FALSE]

MatchNew == \E p \in PointArrays : Created(MatchBuilderNew(p))
MatchPoints == \E p \in PointArrays : SetField("Match", "points", p)
MatchSteps == \E v \in BOOLEAN : SetField("Match", "steps", v)
MatchAnnotations == \E v \in BOOLEAN : SetField("Match", "annotations", v)
MatchGeometry == \E v \in GeometryType : SetField("Match", "geometry", v)
MatchOverview == \E v \in OverviewZoom : SetField("Match", "overview", v)
MatchTimestamps == \E a \in TimestampArrays : SetField("Match", "timestamps", Some(a))
MatchGaps == \E v \in MatchGapsBehaviour : SetField("Match", "gaps", v)
MatchTidy == \E v \in BOOLEAN : SetField("Match", "tidy", v)
MatchWaypoints == \E a \in WaypointArrays : SetField("Match", "waypoints", Some(a))
MatchBearings == \E a \in BearingArrays : SetField("Match", "bearings", Some(a))
MatchRadiuses == \E a \in RadiusArrays : SetField("Match", "radiuses", Some(a))
MatchGenerateHints == \E v \in BOOLEAN : SetField("Match", "generate_hints", v)
MatchHints == \E a \in HintArrays : SetField("Match", "hints", Some(a))
MatchApproaches == \E a \in ApproachArrays : SetField("Match", "approaches", Some(a))
MatchExclude == \E a \in ExcludeArrays : SetField("Match", "exclude", Some(a))
MatchSnapping == \E v \in Snapping : SetField("Match", "snapping", Some(v))
MatchSkipWaypoints == \E v \in BOOLEAN : SetField("Match", "skip_waypoints", v)

MatchRequest(s) ==
    [kind |-> "Match", points |-> s.points,
     steps |-> s.steps, geometry |-> s.geometry, overview |-> s.overview,
     annotations |-> s.annotations, timestamps |-> s.timestamps,
     gaps |-> s.gaps, tidy |-> s.tidy, waypoints |-> s.waypoints,
     bearings |-> s.bearings, radiuses |-> s.radiuses,
     generate_hints |-> s.generate_hints, hints |-> s.hints,
     approaches |-> s.approaches, exclude |-> s.exclude,
     snapping |-> s.snapping, skip_waypoints |-> s.skip_waypoints]

MatchBuild(s) ==
    IF TooFewPoints(s.points) THEN Err("InsufficientPoints")
    ELSE IF LenMismatch(s.timestamps, s.points) THEN ErrDim("Timestamps")
    ELSE IF IsSome(s.timestamps) /\ ~IsSorted(Unwrap(s.timestamps))
         THEN Err("TimestampsNotSorted")
    ELSE IF ~IsSome(s.timestamps) /\ s.gaps = "Split"
         THEN Err("TimestampsRequiredForSplitBehaviour")
    ELSE IF IsSome(s.waypoints) /\ Unwrap(s.waypoints) = <<>>
         THEN Err("EmptyWaypoints")
    ELSE IF IsSome(s.waypoints) /\ MaxOf(Unwrap(s.waypoints)) >= Len(s.points)
         THEN ErrWaypoint(MaxOf(Unwrap(s.waypoints)), Len(s.points))
    ELSE IF LenMismatch(s.bearings, s.points) THEN ErrDim("Bearings")
    ELSE IF LenMismatch(s.radiuses, s.points) THEN ErrDim("Radiuses")
    ELSE IF IsSome(s.radiuses) /\ ~RadiusesNonNegative(Unwrap(s.radiuses))
         THEN Err("NegativeRadius")
    ELSE IF LenMismatch(s.hints, s.points) THEN ErrDim("Hints")
    ELSE IF LenMismatch(s.approaches, s.points) THEN ErrDim("Approaches")
    ELSE IF ExcludeRejected(s.exclude) THEN Err("DifferentExcludeTypes")
    ELSE Ok(MatchRequest(s))

----------------------------------------------------------------------------
\* TableRequestBuilder

TableAnnotation == {"None", "Duration", "Distance", "All"}
TableFallbackCoordinate == {"Input", "Snapped"}

TableBuilderNew(sources, destinations) ==
    [kind |-> "Table", sources |-> sources, destinations |-> destinations,
     annotations |-> "Duration",
     fallback_speed |-> None, fallback_coordinate |-> None,
     scale_factor |-> None,
     source_bearings |-> None, destination_bearings |-> None,
     source_radiuses |-> None, destination_radiuses |-> None,
     generate_hints |-> TRUE,
     source_hints |-> None, destination_hints |-> None,
     source_approaches |-> None, destination_approaches |-> None,
     exclude |-> None, snapping |-> None]

TableNew == \E p \in PointArrays, q \in PointArrays : Created(TableBuilderNew(p, q))
TableSources == \E p \in PointArrays : SetField("Table", "sources", p)
TableDestinations == \E p \in PointArrays : SetField("Table", "destinations", p)
TableAnnotations == \E v \in TableAnnotation : SetField("Table", "annotations", v)
\* fallback(coord, speed) sets the two fields in one call.
TableFallback ==
    \E c \in TableFallbackCoordinate, v \in F64 :
        /\ b.kind = "Table"
        /\ rcv = NotReceived
        /\ nset < MaxSetters
        /\ b' = [b EXCEPT !.fallback_coordinate = Some(c), !.fallback_speed = Some(v)]
        /\ nset' = nset + 1
        /\ UNCHANGED <<built, res, rcv, call, osrm>>
TableScaleFactor == \E v \in F64 : SetField("Table", "scale_factor", Some(v))
TableSourceBearings ==
    \E a \in BearingArrays : SetField("Table", "source_bearings", Some(a))
TableDestinationBearings ==
    \E a \in BearingArrays : SetField("Table", "destination_bearings", Some(a))
TableSourceRadiuses ==
    \E a \in RadiusArrays : SetField("Table", "source_radiuses", Some(a))
TableDestinationRadiuses ==
    \E a \in RadiusArrays : SetField("Table", "destination_radiuses", Some(a))
TableGenerateHints == \E v \in BOOLEAN : SetField("Table", "generate_hints", v)
TableSourceHints ==
    \E a \in HintArrays : SetField("Table", "source_hints", Some(a))
TableDestinationHints ==
    \E a \in HintArrays : SetField("Table", "destination_hints", Some(a))
TableSourceApproaches ==
    \E a \in ApproachArrays : SetField("Table", "source_approaches", Some(a))
TableDestinationApproaches ==
    \E a \in ApproachArrays : SetField("Table", "destination_approaches", Some(a))
TableExclude == \E a \in ExcludeArrays : SetField("Table", "exclude", Some(a))
TableSnapping == \E v \in Snapping : SetField("Table", "snapping", Some(v))

TableRequest(s) ==
    [kind |-> "Table", sources |-> s.sources, destinations |-> s.destinations,
     annotations |-> s.annotations,
     fallback_speed |-> s.fallback_speed,
     fallback_coordinate |-> s.fallback_coordinate,
     scale_factor |-> s.scale_factor,
     source_bearings |-> s.source_bearings,
     destination_bearings |-> s.destination_bearings,
     source_radiuses |-> s.source_radiuses,
     destination_radiuses |-> s.destination_radiuses,
     generate_hints |-> s.generate_hints,
     source_hints |-> s.source_hints,
     destination_hints |-> s.destination_hints,
     source_approaches |-> s.source_approaches,
     destination_approaches |-> s.destination_approaches,
     exclude |-> s.exclude, snapping |-> s.snapping]

TableBuild(s) ==
    IF s.sources = <<>> THEN Err("EmptySources")
    ELSE IF s.destinations = <<>> THEN Err("EmptyDestinations")
    ELSE IF IsSome(s.fallback_speed) /\ FLe(Unwrap(s.fallback_speed), Num(0))
         THEN Err("NonPositiveFallbackSpeed")
    ELSE IF IsSome(s.scale_factor) /\ FLe(Unwrap(s.scale_factor), Num(0))
         THEN Err("NonPositiveScaleFactor")
    ELSE IF IsSome(s.fallback_coordinate) # IsSome(s.fallback_speed)
         THEN Err("IncompleteFallbackPair")
    ELSE IF IsSome(s.scale_factor) /\ LacksDuration(s.annotations)
         THEN Err("ScaleFactorRequiresDuration")
    ELSE IF LenMismatch(s.source_bearings, s.sources) THEN ErrDim("Bearings")
    ELSE IF LenMismatch(s.destination_bearings, s.destinations) THEN ErrDim("Bearings")
    ELSE IF LenMismatch(s.source_radiuses, s.sources) THEN ErrDim("Radiuses")
    ELSE IF IsSome(s.source_radiuses) /\ ~RadiusesNonNegative(Unwrap(s.source_radiuses))
         THEN Err("NegativeRadius")
    ELSE IF LenMismatch(s.destination_radiuses, s.destinations) THEN ErrDim("Radiuses")
    ELSE IF IsSome(s.destination_radiuses)
            /\ ~RadiusesNonNegative(Unwrap(s.destination_radiuses))
         THEN Err("NegativeRadius")
    ELSE IF LenMismatch(s.source_hints, s.sources) THEN ErrDim("Hints")
    ELSE IF LenMismatch(s.destination_hints, s.destinations) THEN ErrDim("Hints")
    ELSE IF LenMismatch(s.source_approaches, s.sources) THEN ErrDim("Approaches")
    ELSE IF LenMismatch(s.destination_approaches, s.destinations)
         THEN ErrDim("Approaches")
    ELSE IF ExcludeRejected(s.exclude) THEN Err("DifferentExcludeTypes")
    ELSE Ok(TableRequest(s))

----------------------------------------------------------------------------
\* NearestRequestBuilder

NearestBuilderNew(point, number) ==
    [kind |-> "Nearest", point |-> point, number |-> number,
     bearing |-> None, radius |-> None, approach |-> None,
     exclude |-> None, snapping |-> None]

NearestNew == \E i \in 1..MaxLen, n \in 1..MaxLen : Created(NearestBuilderNew(Pt(i), n))
NearestPoint == \E i \in 1..MaxLen : SetField("Nearest", "point", Pt(i))
NearestBearing == SetField("Nearest", "bearing", Some(DefaultBearing))
NearestRadius == \E v \in F64 : SetField("Nearest", "radius", Some(v))
NearestApproach == \E v \in Approach : SetField("Nearest", "approach", Some(v))
NearestExclude == \E a \in ExcludeArrays : SetField("Nearest", "exclude", Some(a))
NearestSnapping == \E v \in Snapping : SetField("Nearest", "snapping", Some(v))

NearestRequest(s) ==
    [kind |-> "Nearest", point |-> s.point, number |-> s.number,
     bearing |-> s.bearing, radius |-> s.radius, approach |-> s.approach,
     exclude |-> s.exclude, snapping |-> s.snapping]

NearestBuild(s) ==
    IF ExcludeRejected(s.exclude) THEN Err("DifferentExcludeTypes")
    ELSE IF IsSome(s.radius) /\ FLt(Unwrap(s.radius), Num(0))
         THEN Err("NegativeRadius")
    ELSE Ok(NearestRequest(s))

----------------------------------------------------------------------------
\* The remote engine's URL for a Route request, as its list of parts in the
\* order they are written: the coordinates, the parameters always sent, and
\* the optional parameters, each sent only when its option is set.

\* format!("{}", bool)
BoolStr(v) == IF v THEN "true" ELSE "false"

\* url_form / as_str of the option enums.
UrlForm(v) ==
    CASE v = "Polyline" -> "polyline"
      [] v = "Polyline6" -> "polyline6"
      [] v = "GeoJSON" -> "geojson"
      [] v = "Simplified" -> "simplified"
      [] v = "Full" -> "full"
      [] v = "False" -> "false"
      [] v = "Curb" -> "curb"
      [] v = "Unrestricted" -> "unrestricted"
      [] v = "Default" -> "default"
      [] v = "Any" -> "any"
      [] v = "Toll" -> "toll"
      [] v = "Ferry" -> "ferry"
      [] v = "First" -> "first"
      [] v = "Last" -> "last"
      [] v = "Split" -> "split"
      [] v = "Ignore" -> "ignore"
      [] v = "None" -> "none"
      [] v = "Duration" -> "duration"
      [] v = "Distance" -> "distance"
      [] v = "All" -> "duration,distance"
      [] v = "Input" -> "input"
      [] v = "Snapped" -> "snapped"

\* Segments: the `;`-joined segments of a per-point option, or None when
\* the option is unset.
RouteUrl(r) ==
    LET Segments(o, Seg(_)) ==
            IF IsSome(o)
            THEN Some([i \in 1..Len(Unwrap(o)) |-> Seg(Unwrap(o)[i])])
            ELSE None
    IN
    [service |-> "route",
     coordinates |->
         [i \in 1..Len(r.points) |-> <<r.points[i].longitude, r.points[i].latitude>>],
     alternatives |-> BoolStr(r.alternatives),
     steps |-> BoolStr(r.steps),
     geometries |-> UrlForm(r.geometry),
     overview |-> UrlForm(r.overview),
     annotations |-> BoolStr(r.annotations),
     generate_hints |-> BoolStr(r.generate_hints),
     skip_waypoints |-> BoolStr(r.skip_waypoints),
     bearings |->
         Segments(r.bearings,
                  LAMBDA e : IF IsSome(e)
                             THEN <<Unwrap(e).bearing, Unwrap(e).range>> ELSE <<>>),
     radiuses |->
         Segments(r.radiuses, LAMBDA e : IF IsSome(e) THEN <<Unwrap(e)>> ELSE <<>>),
     hints |-> Segments(r.hints, LAMBDA e : IF IsSome(e) THEN Unwrap(e) ELSE ""),
     approaches |-> Segments(r.approaches, LAMBDA e : UrlForm(e)),
     exclude |-> Segments(r.exclude, LAMBDA e : UrlForm(e.class)),
     snapping |-> IF IsSome(r.snapping) THEN Some(UrlForm(Unwrap(r.snapping))) ELSE None]

\* remote OsrmEngine::trip
TripUrl(r) ==
    LET Segments(o, Seg(_)) ==
            IF IsSome(o)
            THEN Some([i \in 1..Len(Unwrap(o)) |-> Seg(Unwrap(o)[i])])
            ELSE None
    IN
    [service |-> "trip",
     coordinates |->
         [i \in 1..Len(r.points) |-> <<r.points[i].longitude, r.points[i].latitude>>],
     steps |-> BoolStr(r.steps),
     geometries |-> UrlForm(r.geometry),
     overview |-> UrlForm(r.overview),
     annotations |-> BoolStr(r.annotations),
     roundtrip |-> BoolStr(r.roundtrip),
     source |-> UrlForm(r.source),
     destination |-> UrlForm(r.destination),
     generate_hints |-> BoolStr(r.generate_hints),
     skip_waypoints |-> BoolStr(r.skip_waypoints),
     bearings |->
         Segments(r.bearings,
                  LAMBDA e : IF IsSome(e)
                             THEN <<Unwrap(e).bearing, Unwrap(e).range>> ELSE <<>>),
     radiuses |->
         Segments(r.radiuses, LAMBDA e : IF IsSome(e) THEN <<Unwrap(e)>> ELSE <<>>),
     hints |-> Segments(r.hints, LAMBDA e : IF IsSome(e) THEN Unwrap(e) ELSE ""),
     approaches |-> Segments(r.approaches, LAMBDA e : UrlForm(e)),
     exclude |-> Segments(r.exclude, LAMBDA e : UrlForm(e.class)),
     snapping |-> IF IsSome(r.snapping) THEN Some(UrlForm(Unwrap(r.snapping))) ELSE None]

\* remote OsrmEngine::match
MatchUrl(r) ==
    LET Segments(o, Seg(_)) ==
            IF IsSome(o)
            THEN Some([i \in 1..Len(Unwrap(o)) |-> Seg(Unwrap(o)[i])])
            ELSE None
    IN
    [service |-> "match",
     coordinates |->
         [i \in 1..Len(r.points) |-> <<r.points[i].longitude, r.points[i].latitude>>],
     steps |-> BoolStr(r.steps),
     geometries |-> UrlForm(r.geometry),
     overview |-> UrlForm(r.overview),
     annotations |-> BoolStr(r.annotations),
     gaps |-> UrlForm(r.gaps),
     tidy |-> BoolStr(r.tidy),
     generate_hints |-> BoolStr(r.generate_hints),
     skip_waypoints |-> BoolStr(r.skip_waypoints),
     timestamps |-> Segments(r.timestamps, LAMBDA e : e),
     waypoints |-> Segments(r.waypoints, LAMBDA e : e),
     bearings |->
         Segments(r.bearings,
                  LAMBDA e : IF IsSome(e)
                             THEN <<Unwrap(e).bearing, Unwrap(e).range>> ELSE <<>>),
     radiuses |->
         Segments(r.radiuses, LAMBDA e : IF IsSome(e) THEN <<Unwrap(e)>> ELSE <<>>),
     hints |-> Segments(r.hints, LAMBDA e : IF IsSome(e) THEN Unwrap(e) ELSE ""),
     approaches |-> Segments(r.approaches, LAMBDA e : UrlForm(e)),
     exclude |-> Segments(r.exclude, LAMBDA e : UrlForm(e.class)),
     snapping |-> IF IsSome(r.snapping) THEN Some(UrlForm(Unwrap(r.snapping))) ELSE None]

\* remote OsrmEngine::nearest
NearestUrl(r) ==
    [service |-> "nearest",
     coordinates |-> <<<<r.point.longitude, r.point.latitude>>>>,
     number |-> r.number,
     bearings |-> IF IsSome(r.bearing)
                  THEN Some(<<Unwrap(r.bearing).bearing, Unwrap(r.bearing).range>>)
                  ELSE None,
     radiuses |-> IF IsSome(r.radius) THEN Some(<<Unwrap(r.radius)>>) ELSE None,
     approaches |-> IF IsSome(r.approach) THEN Some(UrlForm(Unwrap(r.approach))) ELSE None,
     exclude |-> IF IsSome(r.exclude)
                 THEN Some([i \in 1..Len(Unwrap(r.exclude)) |->
                               UrlForm(Unwrap(r.exclude)[i].class)])
                 ELSE None,
     snapping |-> IF IsSome(r.snapping) THEN Some(UrlForm(Unwrap(r.snapping))) ELSE None]

\* A table URL whose per-point parameters hold only the arrays supplied,
\* with nothing in the place of the side that was not.
TableUrlSuppliedOnly(r) ==
    LET S == Len(r.sources)
        D == Len(r.destinations)
        all == r.sources \o r.destinations
        Both(src, dst, Seg(_), empty) ==
            IF IsSome(src) \/ IsSome(dst)
            THEN Some((IF IsSome(src)
                       THEN [i \in 1..Len(Unwrap(src)) |-> Seg(Unwrap(src)[i])]
                       ELSE <<>>)
                      \o (IF IsSome(dst)
                          THEN [i \in 1..Len(Unwrap(dst)) |-> Seg(Unwrap(dst)[i])]
                          ELSE <<>>))
            ELSE None
        Invalid == [service |-> "error", err |-> "InvalidTableRequest"]
    IN
    IF S = 0 \/ D = 0 THEN Invalid
    ELSE IF IsSome(r.fallback_coordinate) # IsSome(r.fallback_speed) THEN Invalid
    ELSE IF IsSome(r.scale_factor) /\ r.annotations \notin {"All", "Duration"} THEN Invalid
    ELSE
    [service |-> "table",
     coordinates |-> [i \in 1..(S + D) |-> <<all[i].longitude, all[i].latitude>>],
     sources |-> [i \in 1..S |-> i - 1],
     destinations |-> [j \in 1..D |-> S + j - 1],
     generate_hints |-> BoolStr(r.generate_hints),
     fallback |-> IF IsSome(r.fallback_speed)
                  THEN Some(<<Unwrap(r.fallback_speed), UrlForm(Unwrap(r.fallback_coordinate))>>)
                  ELSE None,
     annotations |-> UrlForm(r.annotations),
     scale_factor |-> r.scale_factor,
     bearings |->
         Both(r.source_bearings, r.destination_bearings,
              LAMBDA e : IF IsSome(e)
                         THEN <<Unwrap(e).bearing, Unwrap(e).range>> ELSE <<>>, <<>>),
     radiuses |->
         Both(r.source_radiuses, r.destination_radiuses,
              LAMBDA e : IF IsSome(e) THEN <<Unwrap(e)>> ELSE <<>>, <<>>),
     hints |->
         Both(r.source_hints, r.destination_hints,
              LAMBDA e : IF IsSome(e) THEN Unwrap(e) ELSE "", ""),
     approaches |->
         Both(r.source_approaches, r.destination_approaches,
              LAMBDA e : UrlForm(e), ""),
     exclude |-> IF IsSome(r.exclude)
                 THEN Some([i \in 1..Len(Unwrap(r.exclude)) |->
                               UrlForm(Unwrap(r.exclude)[i].class)])
                 ELSE None,
     snapping |-> IF IsSome(r.snapping) THEN Some(UrlForm(Unwrap(r.snapping))) ELSE None]

\* remote OsrmEngine::table: the coordinates are the sources followed by the
\* destinations; a per-point parameter is written when either side's array
\* is set, an unset side giving one empty segment per point of that side.
TableUrl(r) ==
    LET S == Len(r.sources)
        D == Len(r.destinations)
        all == r.sources \o r.destinations
        Both(src, dst, Seg(_), empty) ==
            IF IsSome(src) \/ IsSome(dst)
            THEN Some((IF IsSome(src)
                       THEN [i \in 1..Len(Unwrap(src)) |-> Seg(Unwrap(src)[i])]
                       ELSE [i \in 1..S |-> empty])
                      \o (IF IsSome(dst)
                          THEN [i \in 1..Len(Unwrap(dst)) |-> Seg(Unwrap(dst)[i])]
                          ELSE [i \in 1..D |-> empty]))
            ELSE None
        Invalid == [service |-> "error", err |-> "InvalidTableRequest"]
    IN
    IF S = 0 \/ D = 0 THEN Invalid
    ELSE IF IsSome(r.fallback_coordinate) # IsSome(r.fallback_speed) THEN Invalid
    ELSE IF IsSome(r.scale_factor) /\ r.annotations \notin {"All", "Duration"} THEN Invalid
    ELSE
    [service |-> "table",
     coordinates |-> [i \in 1..(S + D) |-> <<all[i].longitude, all[i].latitude>>],
     sources |-> [i \in 1..S |-> i - 1],
     destinations |-> [j \in 1..D |-> S + j - 1],
     generate_hints |-> BoolStr(r.generate_hints),
     fallback |-> IF IsSome(r.fallback_speed)
                  THEN Some(<<Unwrap(r.fallback_speed), UrlForm(Unwrap(r.fallback_coordinate))>>)
                  ELSE None,
     annotations |-> UrlForm(r.annotations),
     scale_factor |-> r.scale_factor,
     bearings |->
         Both(r.source_bearings, r.destination_bearings,
              LAMBDA e : IF IsSome(e)
                         THEN <<Unwrap(e).bearing, Unwrap(e).range>> ELSE <<>>, <<>>),
     radiuses |->
         Both(r.source_radiuses, r.destination_radiuses,
              LAMBDA e : IF IsSome(e) THEN <<Unwrap(e)>> ELSE <<>>, <<>>),
     hints |->
         Both(r.source_hints, r.destination_hints,
              LAMBDA e : IF IsSome(e) THEN Unwrap(e) ELSE "", ""),
     approaches |->
         Both(r.source_approaches, r.destination_approaches,
              LAMBDA e : UrlForm(e), ""),
     exclude |-> IF IsSome(r.exclude)
                 THEN Some([i \in 1..Len(Unwrap(r.exclude)) |->
                               UrlForm(Unwrap(r.exclude)[i].class)])
                 ELSE None,
     snapping |-> IF IsSome(r.snapping) THEN Some(UrlForm(Unwrap(r.snapping))) ELSE None]

----------------------------------------------------------------------------
\* The native engine: the arguments of the osrm_<service> call it makes for
\* a request. flags is the u8 the set bits add up to; a buffer is the values
\* behind its pointer, its length being the num_ argument.

\* f64::INFINITY
Infinity == [nan |-> FALSE, v |-> 0, inf |-> TRUE]

\* Osrm::route, Osrm::trip, Osrm::match and Osrm::nearest up to the call.
NativeArgs(r) ==
    LET Bit(v, k) == IF v THEN 2 ^ k ELSE 0
        coords == IF r.kind = "Nearest" THEN <<r.point.longitude, r.point.latitude>>
                  ELSE [i \in 1..(2 * Len(r.points)) |->
                           IF i % 2 = 1 THEN r.points[(i + 1) \div 2].longitude
                           ELSE r.points[i \div 2].latitude]
        bearings == IF IsSome(r.bearings)
                    THEN [i \in 1..Len(Unwrap(r.bearings)) |->
                             IF IsSome(Unwrap(r.bearings)[i])
                             THEN Unwrap(Unwrap(r.bearings)[i]) ELSE DefaultBearing]
                    ELSE <<>>
        radiuses == IF IsSome(r.radiuses)
                    THEN [i \in 1..Len(Unwrap(r.radiuses)) |->
                             IF IsSome(Unwrap(r.radiuses)[i])
                             THEN Unwrap(Unwrap(r.radiuses)[i]) ELSE Infinity]
                    ELSE [i \in 1..Len(r.points) |-> Infinity]
        hints == IF IsSome(r.hints)
                 THEN [i \in 1..Len(Unwrap(r.hints)) |->
                          IF IsSome(Unwrap(r.hints)[i])
                          THEN Unwrap(Unwrap(r.hints)[i]) ELSE ""]
                 ELSE <<>>
        approaches == IF IsSome(r.approaches) THEN Unwrap(r.approaches) ELSE <<>>
        excludes == IF IsSome(r.exclude)
                    THEN [i \in 1..Len(Unwrap(r.exclude)) |->
                             UrlForm(Unwrap(r.exclude)[i].class)]
                    ELSE <<>>
        snapping == IF IsSome(r.snapping) THEN Unwrap(r.snapping) ELSE "Default"
    IN
    CASE r.kind = "Route" ->
            [service |-> "osrm_route", coordinates |-> coords,
             num_coordinates |-> Len(r.points),
             geometry_type |-> r.geometry, overview_zoom |-> r.overview,
             flags |-> Bit(r.alternatives, 0) + Bit(r.steps, 1)
                       + Bit(r.annotations, 2) + Bit(r.continue_straight, 3)
                       + Bit(r.generate_hints, 4) + Bit(r.skip_waypoints, 5),
             bearings |-> bearings, radiuses |-> radiuses, hints |-> hints,
             approaches |-> approaches, excludes |-> excludes,
             snapping |-> snapping]
      [] r.kind = "Trip" ->
            [service |-> "osrm_trip", coordinates |-> coords,
             num_coordinates |-> Len(r.points),
             geometry_type |-> r.geometry, overview_zoom |-> r.overview,
             source |-> r.source, destination |-> r.destination,
             flags |-> Bit(r.steps, 0) + Bit(r.annotations, 1)
                       + Bit(r.generate_hints, 2) + Bit(r.skip_waypoints, 3)
                       + Bit(r.roundtrip, 4),
             bearings |-> bearings, radiuses |-> radiuses, hints |-> hints,
             approaches |-> approaches, excludes |-> excludes,
             snapping |-> snapping]
      [] r.kind = "Match" ->
            [service |-> "osrm_match", coordinates |-> coords,
             num_coordinates |-> Len(r.points),
             geometry_type |-> r.geometry, overview_zoom |-> r.overview,
             timestamps |-> IF IsSome(r.timestamps) THEN Unwrap(r.timestamps) ELSE <<>>,
             gaps_type |-> r.gaps,
             waypoints |-> IF IsSome(r.waypoints) THEN Unwrap(r.waypoints) ELSE <<>>,
             flags |-> Bit(r.tidy, 0) + Bit(r.steps, 1)
                       + Bit(r.annotations, 2) + Bit(r.generate_hints, 3),
             bearings |-> bearings, radiuses |-> radiuses, hints |-> hints,
             approaches |-> approaches, excludes |-> excludes]
      [] r.kind = "Nearest" ->
            [service |-> "osrm_nearest", coordinates |-> coords,
             number |-> r.number,
             bearing |-> r.bearing, radius |-> r.radius, approach |-> r.approach,
             excludes |-> excludes, snapping |-> r.snapping]

\* Osrm::table up to the call: each per-point buffer is made when either
\* side's array is set, filled with a default and then overwritten by the
\* elements that are set.
NativeTableArgs(r) ==
    LET S == Len(r.sources)
        D == Len(r.destinations)
        all == r.sources \o r.destinations
        Both(src, dst, fill, Val(_)) ==
            IF IsSome(src) \/ IsSome(dst)
            THEN [i \in 1..(S + D) |->
                     IF i <= S /\ IsSome(src) /\ i <= Len(Unwrap(src))
                          /\ IsSome(Val(Unwrap(src)[i]))
                     THEN Unwrap(Val(Unwrap(src)[i]))
                     ELSE IF i > S /\ IsSome(dst) /\ i - S <= Len(Unwrap(dst))
                               /\ IsSome(Val(Unwrap(dst)[i - S]))
                     THEN Unwrap(Val(Unwrap(dst)[i - S]))
                     ELSE fill]
            ELSE <<>>
    IN
    [service |-> "osrm_table",
     coordinates |-> [i \in 1..(2 * (S + D)) |->
                         IF i % 2 = 1 THEN all[(i + 1) \div 2].longitude
                         ELSE all[i \div 2].latitude],
     num_coordinates |-> S + D,
     sources |-> [i \in 1..S |-> i - 1],
     destinations |-> [j \in 1..D |-> S + j - 1],
     annotations |-> r.annotations,
     fallback_speed |-> IF IsSome(r.fallback_speed) THEN Unwrap(r.fallback_speed) ELSE Num(0),
     fallback_coordinate_type |->
         IF IsSome(r.fallback_coordinate) THEN Unwrap(r.fallback_coordinate) ELSE "Input",
     scale_factor |-> IF IsSome(r.scale_factor) THEN Unwrap(r.scale_factor) ELSE Num(0),
     bearings |-> Both(r.source_bearings, r.destination_bearings, DefaultBearing,
                       LAMBDA e : e),
     radiuses |-> Both(r.source_radiuses, r.destination_radiuses, Num(0), LAMBDA e : e),
     hints |-> Both(r.source_hints, r.destination_hints, "", LAMBDA e : e),
     approaches |-> Both(r.source_approaches, r.destination_approaches,
                         "Unrestricted", LAMBDA e : Some(e)),
     generate_hints |-> r.generate_hints,
     excludes |-> IF IsSome(r.exclude)
                  THEN [i \in 1..Len(Unwrap(r.exclude)) |->
                           UrlForm(Unwrap(r.exclude)[i].class)]
                  ELSE <<>>,
     snapping |-> IF IsSome(r.snapping) THEN Unwrap(r.snapping) ELSE "Default"]

----------------------------------------------------------------------------
\* The mock engine: the response it makes up for a request.

\* Route::default() and MatchRoute::default(), with RouteLeg::default().
RouteDefault ==
    LET RouteLegDefault == [steps |-> <<>>, annotation |-> Some("Annotation::default()")]
    IN  [geometry |-> Some([variant |-> "GeoJson",
                            v |-> [type |-> "LineString",
                                   coordinates |-> <<<<120, 10>>, <<121, 10>>,
                                                     <<122, 10>>, <<123, 10>>>>]]),
         legs |-> <<RouteLegDefault, RouteLegDefault>>]

\* The Waypoint the mock makes for an input point.
MockWaypoint(p) ==
    [hint |-> Some("Mock hint"), location |-> <<p.latitude, p.longitude>>,
     name |-> "Mock name", distance |-> 0]

\* A table whose durations matrix is there whatever the annotation mode.
MockTableDurationsAlways(req) ==
    LET S == Len(req.sources)
        D == Len(req.destinations)
        durations == [i \in 1..S |-> [j \in 1..D |-> Some(IF i = j THEN 0 ELSE 1)]]
        distances == [i \in 1..S |-> [j \in 1..D |-> Some(IF i = j THEN 0 ELSE 2)]]
    IN  [service |-> "table", code |-> "Ok",
         destinations |-> Some([j \in 1..D |-> MockWaypoint(req.destinations[j])]),
         sources |-> Some([i \in 1..S |-> MockWaypoint(req.sources[i])]),
         durations |-> Some(durations),
         distances |-> IF req.annotations \in {"All", "Distance"}
                       THEN Some(distances) ELSE None,
         fallback_speed_cells |-> None]

\* mock OsrmEngine::table
MockTable(req) ==
    LET S == Len(req.sources)
        D == Len(req.destinations)
        durations == [i \in 1..S |-> [j \in 1..D |-> Some(IF i = j THEN 0 ELSE 1)]]
        distances == [i \in 1..S |-> [j \in 1..D |-> Some(IF i = j THEN 0 ELSE 2)]]
    IN  [service |-> "table", code |-> "Ok",
         destinations |-> Some([j \in 1..D |-> MockWaypoint(req.destinations[j])]),
         sources |-> Some([i \in 1..S |-> MockWaypoint(req.sources[i])]),
         durations |-> IF req.annotations \in {"All", "Duration"}
                       THEN Some(durations) ELSE None,
         distances |-> IF req.annotations \in {"All", "Distance"}
                       THEN Some(distances) ELSE None,
         fallback_speed_cells |-> None]

\* mock OsrmEngine::{route, trip, nearest, match, table}; points.windows(2)
\* has one element less than points.
MockResponse(req) ==
    CASE req.kind = "Table" -> MockTable(req)
      [] req.kind = "Route" ->
            [service |-> "route", code |-> "Ok",
             routes |-> [i \in 1..(Len(req.points) - 1) |-> RouteDefault],
             waypoints |-> Some([i \in 1..Len(req.points) |-> MockWaypoint(req.points[i])])]
      [] req.kind = "Trip" ->
            [service |-> "trip", code |-> "Ok",
             trips |-> [i \in 1..(Len(req.points) - 1) |-> RouteDefault],
             waypoints |-> Some([i \in 1..Len(req.points) |->
                 [hint |-> Some("Mock hint"),
                  location |-> <<req.points[i].latitude, req.points[i].longitude>>,
                  name |-> "Mock name", distance |-> 0,
                  trips_index |-> i - 1, waypoint_index |-> i - 1]])]
      [] req.kind = "Nearest" ->
            [service |-> "nearest", code |-> "Ok",
             waypoints |-> <<MockWaypoint(req.point)>>]
      [] req.kind = "Match" ->
            [service |-> "match", code |-> "Ok",
             matchings |-> [i \in 1..(Len(req.points) - 1) |-> RouteDefault],
             tracepoints |-> [i \in 1..Len(req.points) |->
                 Some([hint |-> "Mock hint",
                       location |-> <<req.points[i].latitude, req.points[i].longitude>>,
                       name |-> "Mock name", distance |-> 0,
                       matchings_index |-> 0, waypoint_index |-> i - 1,
                       alternatives_count |-> 0])]]

----------------------------------------------------------------------------
\* What a backend makes of the request it is called with: the mock engine
\* its response, the remote engine its URL, the native engine the arguments
\* of its call.
Handled(backend, req) ==
    IF backend = "mock" THEN MockResponse(req)
    ELSE IF backend = "remote" THEN
        CASE req.kind = "Route" -> RouteUrl(req)
          [] req.kind = "Trip" -> TripUrl(req)
          [] req.kind = "Match" -> MatchUrl(req)
          [] req.kind = "Table" -> TableUrl(req)
          [] req.kind = "Nearest" -> NearestUrl(req)
    ELSE IF req.kind = "Table" THEN NativeTableArgs(req)
    ELSE NativeArgs(req)

----------------------------------------------------------------------------
\* build(&self): the builder is only read; the outcome is a new value.
BuildOf(s) ==
    CASE s.kind = "Route" -> RouteBuild(s)
      [] s.kind = "Trip" -> TripBuild(s)
      [] s.kind = "Match" -> MatchBuild(s)
      [] s.kind = "Table" -> TableBuild(s)
      [] s.kind = "Nearest" -> NearestBuild(s)

\* A build that takes the exclude list out of the builder it reads.
BuildTakingExclude ==
    /\ b.kind # "None"
    /\ rcv = NotReceived
    /\ built' = b
    /\ res' = BuildOf(b)
    /\ b' = [b EXCEPT !.exclude = None]
    /\ UNCHANGED <<nset, rcv, call, osrm>>

Build ==
    /\ b.kind # "None"
    /\ rcv = NotReceived
    /\ built' = b
    /\ res' = BuildOf(b)
    /\ UNCHANGED <<b, nset, rcv, call, osrm>>

\* engine.<service>(request): the backend is handed the built request.
Dispatch(backend) ==
    /\ res.kind = "Ok"
    /\ rcv' = [backend |-> backend, req |-> res.req, out |-> Handled(backend, res.req)]
    /\ UNCHANGED <<b, nset, built, res, call, osrm>>

NativeCall == Dispatch("native")
RemoteCall == Dispatch("remote")
MockCall == Dispatch("mock")

\* simple_route(from, to) of the native and remote engines: builds a Route
\* request from the two points with no other setter, .expect()s the build
\* and hands the request to the backend's route call.
SimpleRoute(backend) ==
    \E i \in 1..MaxLen, j \in 1..MaxLen :
        LET r == RouteBuild(RouteBuilderNew(<<Pt(i), Pt(j)>>)) IN
        /\ b = NoBuilder
        /\ rcv' = IF r.kind = "Ok"
                  THEN [backend |-> backend, req |-> r.req, out |-> Handled(backend, r.req)]
                  ELSE [backend |-> "panicked"]
        /\ UNCHANGED <<b, nset, built, res, call, osrm>>

NativeSimpleRoute == SimpleRoute("native")
RemoteSimpleRoute == SimpleRoute("remote")

Init ==
    /\ b = NoBuilder
    /\ nset = 0
    /\ built = NoBuilder
    /\ res = NoResult
    /\ rcv = NotReceived
    /\ call = NoCall
    /\ osrm = [created |-> 0, destroyed |-> 0, result |-> "none", cloned |-> FALSE,
               stale |-> FALSE,
               owners |-> [e \in {"e1", "e2", "e3"} |-> "none"],
               threads |-> [t \in {"t1", "t2", "t3"} |-> "idle"]]

Next ==
    \/ RouteNew \/ RoutePoints \/ RouteAlternatives \/ RouteSteps
    \/ RouteAnnotations \/ RouteGeometry \/ RouteOverview
    \/ RouteContinueStraight \/ RouteBearings \/ RouteRadiuses
    \/ RouteGenerateHints \/ RouteHints \/ RouteApproaches \/ RouteExclude
    \/ RouteSnapping \/ RouteSkipWaypoints
    \/ TripNew \/ TripPoints \/ TripSteps \/ TripAnnotations \/ TripGeometry
    \/ TripOverview \/ TripRoundtrip \/ TripSetSource \/ TripSetDestination
    \/ TripBearings \/ TripRadiuses \/ TripGenerateHints \/ TripHints
    \/ TripApproaches \/ TripExclude \/ TripSnapping \/ TripSkipWaypoints
    \/ MatchNew \/ MatchPoints \/ MatchSteps \/ MatchAnnotations
    \/ MatchGeometry \/ MatchOverview \/ MatchTimestamps \/ MatchGaps
    \/ MatchTidy \/ MatchWaypoints \/ MatchBearings \/ MatchRadiuses
    \/ MatchGenerateHints \/ MatchHints \/ MatchApproaches \/ MatchExclude
    \/ MatchSnapping \/ MatchSkipWaypoints
    \/ TableNew \/ TableSources \/ TableDestinations \/ TableAnnotations
    \/ TableFallback \/ TableScaleFactor
    \/ TableSourceBearings \/ TableDestinationBearings
    \/ TableSourceRadiuses \/ TableDestinationRadiuses
    \/ TableGenerateHints \/ TableSourceHints \/ TableDestinationHints
    \/ TableSourceApproaches \/ TableDestinationApproaches
    \/ TableExclude \/ TableSnapping
    \/ NearestNew \/ NearestPoint \/ NearestBearing \/ NearestRadius
    \/ NearestApproach \/ NearestExclude \/ NearestSnapping
    \/ Build
    \/ NativeCall \/ RemoteCall \/ MockCall
    \/ NativeSimpleRoute \/ RemoteSimpleRoute

Spec == Init /\ [][Next]_vars

----------------------------------------------------------------------------
\* The value types of the crate: their checked constructors and the decoder
\* of a geometry field. They are pure functions; each call is followed on
\* its own, from inputs on, at and beyond the limits the code tests.

\* A range test that leaves the two limits out.
PointNewOpenRange(latitude, longitude) ==
    IF ~(/\ FLt(Num(-90), latitude) /\ FLt(latitude, Num(90))
         /\ FLt(Num(-180), longitude) /\ FLt(longitude, Num(180)))
    THEN None
    ELSE Some([latitude |-> latitude, longitude |-> longitude])

\* Point::new: (-90.0..=90.0).contains(&latitude) is
\* -90.0 <= latitude && latitude <= 90.0, false on a NaN.
PointNew(latitude, longitude) ==
    IF ~(/\ FLe(Num(-90), latitude) /\ FLe(latitude, Num(90))
         /\ FLe(Num(-180), longitude) /\ FLe(longitude, Num(180)))
    THEN None
    ELSE Some([latitude |-> latitude, longitude |-> longitude])

\* Point::latitude() and Point::longitude().
PointAccessors(p) == <<p.latitude, p.longitude>>

PointNewCall ==
    \E latitude \in {NaN} \cup {Num(v) : v \in {-91, -90, -89, 0, 89, 90, 91}},
       longitude \in {NaN} \cup {Num(v) : v \in {-181, -180, -91, 0, 91, 180, 181}} :
        /\ call' = [fn |-> "Point::new", args |-> <<latitude, longitude>>,
                    out |-> PointNew(latitude, longitude)]
        /\ UNCHANGED <<b, nset, built, res, rcv, osrm>>

\* Bearing::new(bearing: i16, range: i16): None is returned when
\* !(0..=360).contains(&bearing) & !(0..=180).contains(&range).
BearingNew(bearing, range) ==
    IF ~(0 <= bearing /\ bearing <= 360) /\ ~(0 <= range /\ range <= 180)
    THEN None
    ELSE Some([bearing |-> bearing, range |-> range])

BearingNewCall ==
    \E bearing \in {-1, 0, 90, 360, 361}, range \in {-1, 0, 10, 180, 181} :
        /\ call' = [fn |-> "Bearing::new", args |-> <<bearing, range>>,
                    out |-> BearingNew(bearing, range)]
        /\ UNCHANGED <<b, nset, built, res, rcv, osrm>>

\* The bytes of the payload quoted either side of a syntax error.
MaxExcerpt == 20

\* A str holding JSON is followed as the whitespace it starts with and the
\* value after it: an object (of which the fields "type" and "coordinates"
\* are followed), a string (whose unescaped content is again a str), a
\* number, an array or null; "chars" is text that is no JSON value.
\* Prefix is the first two characters of the str.
RECURSIVE Prefix(_)
Prefix(t) ==
    LET v == t.val
        body == CASE v.t = "chars" -> v.chars
                  [] v.t = "object" ->
                        <<"{", IF v.type = None /\ v.coordinates = None
                               THEN "}" ELSE "\"">>
                  [] v.t = "string" -> <<"\"">> \o Prefix(v.s) \o <<"\"">>
                  [] v.t = "number" -> <<"4", "2">>
                  [] v.t = "array" -> <<"[", "]">>
                  [] v.t = "null" -> <<"n", "u">>
        all == [i \in 1..t.ws |-> " "] \o body
    IN  SubSeq(all, 1, IF Len(all) < 2 THEN Len(all) ELSE 2)

\* str::starts_with
StartsWith(t, pat) ==
    Len(pat) <= Len(Prefix(t)) /\ SubSeq(Prefix(t), 1, Len(pat)) = pat

\* serde_json::from_str::<String>: the str must hold a JSON string.
FromStrString(t) ==
    IF t.val.t = "string"
    THEN [kind |-> "Ok", v |-> t.val.s]
    ELSE [kind |-> "Err", msg |-> "Data"]

\* serde_json::from_str::<GeoJsonLineString>: the str must hold an object
\* with both fields of the struct.
\* An object may also hold a value that is well-formed JSON and still a
\* syntax error to the typed parser (a number out of range, a lone surrogate
\* escape in a string): such an object has the field fault, the line and
\* column serde_json reports, and the field text, its characters ("\n" and
\* any other).
FromStrLineString(t) ==
    IF t.val.t = "object" /\ "fault" \in DOMAIN t.val
    THEN [kind |-> "Err", msg |-> "Syntax",
          line |-> t.val.fault.line, column |-> t.val.fault.column]
    ELSE IF t.val.t = "object" /\ IsSome(t.val.type) /\ IsSome(t.val.coordinates)
    THEN [kind |-> "Ok", v |-> [type |-> Unwrap(t.val.type),
                               coordinates |-> Unwrap(t.val.coordinates)]]
    ELSE [kind |-> "Err", msg |-> "Data"]

\* get_index_of_line_col(s, line, col): the zero-based index of the first
\* character at which the walk stands at (line, col). The walk starts at
\* (1, 1); having passed i characters it stands on the line after the last
\* "\n" among them, one column past the characters that follow that "\n".
GetIndexOfLineCol(s, line, col) ==
    LET Newlines(i) == {k \in 1..i : s[k] = "\n"}
        LastNewline(i) ==
            IF Newlines(i) = {} THEN 0
            ELSE CHOOSE k \in Newlines(i) : \A j \in Newlines(i) : j <= k
        current_line(i) == 1 + Cardinality(Newlines(i))
        current_col(i) == 1 + i - LastNewline(i)
        hits == {i \in 0..(Len(s) - 1) :
                    current_line(i) = line /\ current_col(i) = col}
    IN  IF hits = {} THEN None
        ELSE Some(CHOOSE i \in hits : \A j \in hits : i <= j)

\* A decoder that tests the payload as it came, leading whitespace included.
GeometryDeserializeUntrimmed(raw) ==
    IF raw.val.t = "chars" THEN [kind |-> "Err", msg |-> "RawValue"]
    ELSE
    LET trimmed == raw
        NotGeometry == [kind |-> "Err", msg |-> "Failed to parse geometry as Polyline or GeoJson"]
    IN
    IF StartsWith(trimmed, <<"{">>) THEN
        LET g == FromStrLineString(trimmed) IN
        IF g.kind = "Ok" THEN [kind |-> "Ok", variant |-> "GeoJson", v |-> g.v] ELSE g
    ELSE IF StartsWith(trimmed, <<"\"">>) THEN
        LET p == FromStrString(trimmed) IN
        IF p.kind = "Ok" THEN [kind |-> "Ok", variant |-> "Polyline", v |-> p.v] ELSE p
    ELSE NotGeometry

\* impl Deserialize for Geometry: the branches in the order of the source.
\* In the Syntax arm index is a usize: index - 20 below zero panics in a
\* build with overflow checks and wraps in one without, where min is then
\* past max, get(min..max) is None and its unwrap panics.
GeometryDeserialize(raw) ==
    IF raw.val.t = "chars" THEN [kind |-> "Err", msg |-> "RawValue"]
    ELSE
    LET trimmed == [raw EXCEPT !.ws = 0]
    IN
    IF StartsWith(trimmed, <<"{">>) THEN
        LET g == FromStrLineString(trimmed) IN
        IF g.kind = "Ok" THEN [kind |-> "Ok", variant |-> "GeoJson", v |-> g.v]
        ELSE IF g.msg = "Syntax" THEN
            LET text == trimmed.val.text
                index == GetIndexOfLineCol(text, g.line, g.column)
            IN  IF index = None THEN [kind |-> "Panic"]
                ELSE IF Unwrap(index) - MaxExcerpt < 0 THEN [kind |-> "Panic"]
                ELSE LET min == Unwrap(index) - MaxExcerpt
                         max == IF Len(text) < Unwrap(index) + MaxExcerpt
                                THEN Len(text) ELSE Unwrap(index) + MaxExcerpt
                     IN  [kind |-> "Err",
                          msg |-> "Syntax error when attempting to parse geojson",
                          line |-> g.line, column |-> g.column,
                          excerpt |-> SubSeq(text, min + 1, max)]
        ELSE g
    ELSE IF StartsWith(trimmed, <<"\"">>) THEN
        LET p == FromStrString(trimmed) IN
        IF p.kind = "Ok" THEN [kind |-> "Ok", variant |-> "Polyline", v |-> p.v] ELSE p
    ELSE IF StartsWith(trimmed, <<"\"", "{">>) THEN
        LET inner == FromStrString(trimmed) IN
        IF inner.kind # "Ok" THEN inner
        ELSE LET g == FromStrLineString(inner.v) IN
             IF g.kind = "Ok" THEN [kind |-> "Ok", variant |-> "GeoJson", v |-> g.v] ELSE g
    ELSE [kind |-> "Err", msg |-> "Failed to parse geometry as Polyline or GeoJson"]

GeometryDeserializeCall ==
    LET Objects == [t : {"object"}, type : {None, Some("LineString")},
                    coordinates : {None, Some(<<>>), Some(<<<<1, 2>>, <<3, 4>>>>),
                                   Some(<<<<3, 4>>, <<1, 2>>>>)}]
        Text(n, nl) == [i \in 1..n |-> IF i = nl THEN "\n" ELSE "c"]
        Faulty == {[t |-> "object", type |-> Some("LineString"),
                    coordinates |-> Some(<<>>),
                    fault |-> [line |-> l, column |-> c], text |-> Text(n, nl)] :
                      n \in {MaxExcerpt + 5, 2 * MaxExcerpt + 5}, nl \in {0, 3},
                      l \in 1..2,
                      c \in {0, 1, 4, MaxExcerpt, MaxExcerpt + 1, MaxExcerpt + 5,
                             MaxExcerpt + 6}}
        Plain == {[t |-> "chars", chars |-> c] :
                     c \in {<<>>, <<"a", "b", "c", "1", "2", "3">>}}
        Contents == [ws : {0}, val : Objects \cup Plain]
        Values == Objects \cup Faulty \cup [t : {"string"}, s : Contents]
                     \cup {[t |-> "number"], [t |-> "array"], [t |-> "null"],
                           [t |-> "chars", chars |-> <<"a", "b", "c", "1", "2", "3">>],
                           [t |-> "chars", chars |-> <<"{", "\"", "t", "\"", ":", "}">>]}
    IN  \E raw \in [ws : 0..1, val : Values] :
            /\ call' = [fn |-> "Geometry::deserialize", args |-> <<raw>>,
                        out |-> GeometryDeserialize(raw)]
            /\ UNCHANGED <<b, nset, built, res, rcv, osrm>>

TypesNext ==
    \/ PointNewCall
    \/ BearingNewCall
    \/ GeometryDeserializeCall

TypesSpec == Init /\ [][TypesNext]_vars

----------------------------------------------------------------------------
\* What a backend does with the engine's answer.
\*
\* The answers drawn as inputs. A text the engine can answer with is the
\* empty text, a text that is no JSON document, the JSON error object of the
\* engine, or the JSON document of a service's response; only the routes of a
\* Route response are kept (each a list of legs with a distance and a
\* duration). The native engine answers with an OsrmResult {code, message},
\* whose message is null or a C string that is valid UTF-8 or not; the remote
\* one with the outcome of the HTTP call, of the read of the body, and the
\* body.
Answers(backend, service) ==
    LET Leg(d, t) == [distance |-> d, duration |-> t]
        RouteLists == {<<>>,
                       <<[legs |-> <<Leg(5, 7)>>]>>,
                       <<[legs |-> <<Leg(1, 2), Leg(3, 4)>>],
                         [legs |-> <<Leg(100, 200)>>]>>}
        Texts ==
            {[doc |-> "empty"], [doc |-> "garbage"],
             [doc |-> "error", code |-> "NoRoute", message |-> "Impossible route"]}
            \cup UNION {{[doc |-> "response", service |-> s, code |-> "Ok",
                          routes |-> rs] :
                             rs \in IF s = "Route" THEN RouteLists ELSE {<<>>}} :
                        s \in {service, "Nearest"}}
    IN  CASE backend = "native" ->
                {[code |-> c, message |-> m] :
                    c \in {0, 1},
                    m \in {[null |-> TRUE]}
                          \cup {[null |-> FALSE, utf8 |-> u, text |-> t] :
                                   u \in BOOLEAN, t \in Texts}}
          [] backend = "remote" ->
                {[call |-> "Err"], [call |-> "Ok", read |-> "Err"]}
                \cup {[call |-> "Ok", read |-> "Ok", body |-> t] : t \in Texts}
          [] OTHER -> {[call |-> "none"]}

\* serde_json::from_str::<XResponse>(text): only the document of the
\* response model of service X decodes.
FromStr(service, text) ==
    IF text.doc = "response" /\ text.service = service
    THEN [kind |-> "Ok", response |-> text]
    ELSE [kind |-> "Err", err |-> "serde_json::Error"]

\* The tail of Osrm::route, trip, match, table and nearest: what is done
\* with the OsrmResult {code, message} the foreign call returned. ops lists
\* the uses of the message pointer in order: "read" (CStr::from_ptr and
\* to_str), "copy" (to_owned), "free" (osrm_free_string).
NativeFfi(result) ==
    IF result.message.null
    THEN [kind |-> "Err", msg |-> [what |-> "OSRM returned a null message"],
          ops |-> <<>>]
    ELSE IF ~result.message.utf8
    THEN [kind |-> "Err", msg |-> [what |-> "Utf8Error"], ops |-> <<"read">>]
    ELSE IF result.code # 0
    THEN [kind |-> "Err",
          msg |-> [what |-> "OSRM error: ", text |-> result.message.text],
          ops |-> <<"read", "copy", "free">>]
    ELSE [kind |-> "Ok", text |-> result.message.text,
          ops |-> <<"read", "copy", "free">>]

\* native OsrmEngine::route, trip, match, table, nearest: the String error of
\* the foreign layer becomes Native(FfiError), a text that does not decode
\* becomes Native(JsonParse).
NativeService(service, result) ==
    LET r == NativeFfi(result) IN
    IF r.kind = "Err"
    THEN [kind |-> "Err", err |-> "Native", native |-> "FfiError",
          msg |-> r.msg, ops |-> r.ops]
    ELSE LET d == FromStr(service, r.text) IN
         IF d.kind = "Err"
         THEN [kind |-> "Err", err |-> "Native", native |-> "JsonParse",
               msg |-> [what |-> d.err], ops |-> r.ops]
         ELSE [kind |-> "Ok", response |-> d.response, ops |-> r.ops]

\* remote OsrmEngine::route, trip, match, table, nearest after the URL is
\* built: ureq::get(url).call(), into_body().read_to_string() and
\* serde_json::from_str, each mapped to Remote(EndpointError(e.to_string())).
RemoteService(service, reply) ==
    IF reply.call = "Err"
    THEN [kind |-> "Err", err |-> "Remote", remote |-> "EndpointError",
          msg |-> [what |-> "ureq::Error"]]
    ELSE IF reply.read = "Err"
    THEN [kind |-> "Err", err |-> "Remote", remote |-> "EndpointError",
          msg |-> [what |-> "ureq::Error"]]
    ELSE LET d == FromStr(service, reply.body) IN
         IF d.kind = "Err"
         THEN [kind |-> "Err", err |-> "Remote", remote |-> "EndpointError",
               msg |-> [what |-> d.err]]
         ELSE [kind |-> "Ok", response |-> d.response]

\* simple_route(from, to) of the three backends, given the engine's answer
\* to the Route request it sends. The request is built from the two points
\* with default options; build cannot fail on two points.
SimpleRouteOf(backend, from, to, answer) ==
    LET request == RouteBuild(RouteBuilderNew(<<from, to>>))
        Summed(response) ==
            LET legs == response.routes[1].legs
                distance[i \in 0..Len(legs)] ==
                    IF i = 0 THEN 0 ELSE distance[i - 1] + legs[i].distance
                duration[i \in 0..Len(legs)] ==
                    IF i = 0 THEN 0 ELSE duration[i - 1] + legs[i].duration
            IN  [kind |-> "Ok", code |-> response.code,
                 distance |-> distance[Len(legs)],
                 durations |-> duration[Len(legs)]]
    IN  CASE backend = "mock" ->
                [kind |-> "Ok", code |-> "Ok", distance |-> 0, durations |-> 1]
          [] request.kind # "Ok" -> [kind |-> "Panic"]
          [] backend = "native" ->
                LET r == NativeService("Route", answer) IN
                IF r.kind = "Err" THEN r
                ELSE IF r.response.routes = <<>>
                THEN [kind |-> "Err", err |-> "EmptyResponse",
                      msg |-> [what |-> "No route was returned between those 2 points"],
                      ops |-> r.ops]
                ELSE Summed(r.response) @@ [ops |-> r.ops]
          [] OTHER ->
                LET r == RemoteService("Route", answer) IN
                IF r.kind = "Err" THEN r
                ELSE IF r.response.routes = <<>>
                THEN [kind |-> "Panic"]
                ELSE Summed(r.response)

NativeReply ==
    \E service \in {"Route", "Trip", "Match", "Table", "Nearest"} :
        \E result \in Answers("native", service) :
            /\ call' = [fn |-> "native", service |-> service, answer |-> result,
                        out |-> NativeService(service, result)]
            /\ UNCHANGED <<b, nset, built, res, rcv, osrm>>

RemoteReply ==
    \E service \in {"Route", "Trip", "Match", "Table", "Nearest"} :
        \E reply \in Answers("remote", service) :
            /\ call' = [fn |-> "remote", service |-> service, answer |-> reply,
                        out |-> RemoteService(service, reply)]
            /\ UNCHANGED <<b, nset, built, res, rcv, osrm>>

SimpleRouteReply ==
    \E backend \in Backends, i \in 1..MaxLen, j \in 1..MaxLen :
        \E answer \in Answers(backend, "Route") :
            /\ call' = [fn |-> "simple_route", backend |-> backend,
                        answer |-> answer,
                        out |-> SimpleRouteOf(backend, Pt(i), Pt(j), answer)]
            /\ UNCHANGED <<b, nset, built, res, rcv, osrm>>

EngineNext ==
    \/ NativeReply
    \/ RemoteReply
    \/ SimpleRouteReply

EngineSpec == Init /\ [][EngineNext]_vars

----------------------------------------------------------------------------
\* The handle of the native engine. osrm.owners are the OsrmEngine values
\* ("none": not made, "live", "dropped"), each holding an Osrm whose only
\* field is the raw pointer osrm_create returned; osrm.threads are the
\* threads sharing them, each idle or inside a query on the engine value it
\* borrows. created and destroyed count the calls of osrm_create and
\* osrm_destroy; stale records a foreign query call made with the handle
\* after osrm_destroy; cloned records that clone was called.

\* OsrmEngine::new -> Osrm::new: osrm_create is called; a null handle gives
\* Err, mapped to Native(Initialization), and no Osrm value exists, so no
\* drop runs; otherwise the value holding the handle is returned.
EngineNew ==
    /\ osrm.created = 0
    /\ \E handle \in {"null", "handle"} :
          osrm' = IF handle = "null"
                  THEN [osrm EXCEPT !.created = 1, !.result = "Initialization"]
                  ELSE [osrm EXCEPT !.created = 1, !.result = "Ok",
                                    !.owners["e1"] = "live"]
    /\ UNCHANGED <<b, nset, built, res, rcv, call>>

\* #[derive(Clone)] on OsrmEngine: clone(&self) clones the field instance,
\* field by field down to the raw pointer, which is copied; osrm_create is
\* not called. (Osrm declares no Clone of its own in native/mod.rs; the
\* derive is followed as what it generates.)
EngineClone ==
    /\ \E e \in DOMAIN osrm.owners, c \in DOMAIN osrm.owners :
          /\ osrm.owners[e] = "live"
          /\ osrm.owners[c] = "none"
          /\ osrm' = [osrm EXCEPT !.owners[c] = "live", !.cloned = TRUE]
    /\ UNCHANGED <<b, nset, built, res, rcv, call>>

\* A thread calls a service method: it borrows a live engine value (&self).
QueryEnter ==
    /\ \E t \in DOMAIN osrm.threads, e \in DOMAIN osrm.owners :
          /\ osrm.threads[t] = "idle"
          /\ osrm.owners[e] = "live"
          /\ osrm' = [osrm EXCEPT !.threads[t] = e]
    /\ UNCHANGED <<b, nset, built, res, rcv, call>>

\* The foreign call osrm_<service>(self.instance, ..) and the return of the
\* method, which ends the borrow.
QueryCall ==
    /\ \E t \in DOMAIN osrm.threads :
          /\ osrm.threads[t] # "idle"
          /\ osrm' = [osrm EXCEPT !.threads[t] = "idle",
                                  !.stale = @ \/ osrm.destroyed > 0]
    /\ UNCHANGED <<b, nset, built, res, rcv, call>>

\* impl Drop for Osrm: an engine value that no thread borrows is dropped and
\* osrm_destroy(self.instance) is called.
EngineDrop ==
    /\ \E e \in DOMAIN osrm.owners :
          /\ osrm.owners[e] = "live"
          /\ \A t \in DOMAIN osrm.threads : osrm.threads[t] # e
          /\ osrm' = [osrm EXCEPT !.owners[e] = "dropped", !.destroyed = @ + 1]
    /\ UNCHANGED <<b, nset, built, res, rcv, call>>

LifecycleNext ==
    \/ EngineNew
    \/ EngineClone
    \/ QueryEnter
    \/ QueryCall
    \/ EngineDrop

LifecycleSpec == Init /\ [][LifecycleNext]_vars

----------------------------------------------------------------------------
\* The rules of the builders as the documentation states them, written
\* without reference to the order in which build checks them.

PointServices == {"Route", "Trip", "Match"}

\* The per-point options of a builder: <<field, error tag, field of the
\* point array the option modulates>>.
PerPoint(k) ==
    CASE k \in {"Route", "Trip"} ->
           {<<"bearings", "Bearings", "points">>, <<"radiuses", "Radiuses", "points">>,
            <<"hints", "Hints", "points">>, <<"approaches", "Approaches", "points">>}
      [] k = "Match" ->
           {<<"timestamps", "Timestamps", "points">>,
            <<"bearings", "Bearings", "points">>, <<"radiuses", "Radiuses", "points">>,
            <<"hints", "Hints", "points">>, <<"approaches", "Approaches", "points">>}
      [] k = "Table" ->
           {<<"source_bearings", "Bearings", "sources">>,
            <<"destination_bearings", "Bearings", "destinations">>,
            <<"source_radiuses", "Radiuses", "sources">>,
            <<"destination_radiuses", "Radiuses", "destinations">>,
            <<"source_hints", "Hints", "sources">>,
            <<"destination_hints", "Hints", "destinations">>,
            <<"source_approaches", "Approaches", "sources">>,
            <<"destination_approaches", "Approaches", "destinations">>}
      [] OTHER -> {}

\* The per-point radius options of a builder.
RadiusOptions(k) == {o \in PerPoint(k) : o[2] = "Radiuses"}

\* Option o of s is set with a length other than that of its point array.
WrongLength(s, o) == IsSome(s[o[1]]) /\ Len(Unwrap(s[o[1]])) # Len(s[o[3]])

\* The present values of a radius array option (none when it is unset).
PresentRadii(o) ==
    IF IsSome(o)
    THEN {Unwrap(Unwrap(o)[i]) : i \in {j \in 1..Len(Unwrap(o)) : IsSome(Unwrap(o)[j])}}
    ELSE {}

\* Every radius value of s, whichever option carries it.
RadiiOf(s) ==
    IF s.kind = "Nearest" THEN s.radius
    ELSE UNION {PresentRadii(s[o[1]]) : o \in RadiusOptions(s.kind)}

\* An exclude list naming classes of two different transport modes.
MixedExclude(o) ==
    IsSome(o) /\ \E i, j \in 1..Len(Unwrap(o)) : Unwrap(o)[i].mode # Unwrap(o)[j].mode

\* Some timestamp is smaller than its predecessor.
Decreases(t) == \E i \in 1..(Len(t) - 1) : t[i + 1] < t[i]

\* s breaks the point-count floor of its service.
BelowFloor(s) ==
    \/ s.kind \in PointServices /\ Len(s.points) < 2
    \/ s.kind = "Table" /\ (Len(s.sources) = 0 \/ Len(s.destinations) = 0)

\* s breaks at least one documented rule.
Violates(s) ==
    \/ BelowFloor(s)
    \/ \E o \in PerPoint(s.kind) : WrongLength(s, o)
    \/ \E x \in RadiiOf(s) : ~FGe(x, Num(0))
    \/ MixedExclude(s.exclude)
    \/ /\ s.kind = "Match"
       /\ \/ ~IsSome(s.timestamps) /\ s.gaps = "Split"
          \/ IsSome(s.timestamps) /\ Decreases(Unwrap(s.timestamps))
          \/ IsSome(s.waypoints) /\ Unwrap(s.waypoints) = <<>>
          \/ IsSome(s.waypoints)
             /\ \E i \in 1..Len(Unwrap(s.waypoints)) : Unwrap(s.waypoints)[i] >= Len(s.points)
    \/ /\ s.kind = "Table"
       /\ \/ IsSome(s.fallback_speed) # IsSome(s.fallback_coordinate)
          \/ IsSome(s.fallback_speed) /\ ~FLt(Num(0), Unwrap(s.fallback_speed))
          \/ IsSome(s.scale_factor) /\ ~FLt(Num(0), Unwrap(s.scale_factor))
          \/ IsSome(s.scale_factor) /\ s.annotations \in {"None", "Distance"}

\* s with option f unset: "every rule other than those on f is satisfied" is
\* ~Violates(Without(s, f)).
Without(s, f) == [s EXCEPT ![f] = None]

\* build has been called; built is the builder it read and res what it returned.
BuildCalled == built.kind # "None"

\* The construction invariants of a request value.
ConstructionInvariants(r) ==
    /\ ~BelowFloor(r)
    /\ \A o \in PerPoint(r.kind) : ~WrongLength(r, o)
    /\ \A x \in RadiiOf(r) : FGe(x, Num(0))
    /\ ~MixedExclude(r.exclude)

----------------------------------------------------------------------------
\* C1: every request a backend (native, remote or mock) is called with
\* satisfies the construction invariants: at least 2 points (Table: non-empty
\* sources and destinations), every set per-point array as long as its point
\* array, every present radius >= 0, and an exclude list of one transport
\* mode.
C1_DispatchedRequestsValid ==
    rcv.backend \in Backends => ConstructionInvariants(rcv.req)

\* The requests that do reach a backend come from a build that returned Ok,
\* or from simple_route's own two-point build.
C1_DispatchedWasBuilt ==
    rcv.backend \in Backends =>
        \/ res = Ok(rcv.req)
        \/ \E i \in 1..MaxLen, j \in 1..MaxLen :
               rcv.req = RouteRequest(RouteBuilderNew(<<Pt(i), Pt(j)>>))

\* C2: a Route, Trip or Match build with fewer than 2 points returns
\* InsufficientPoints, a Table build with no sources returns EmptySources,
\* and one with sources but no destinations returns EmptyDestinations,
\* whatever the other options of the builder are.
C2_PointFloor ==
    BuildCalled =>
        /\ built.kind \in PointServices /\ Len(built.points) < 2
              => res = Err("InsufficientPoints")
        /\ built.kind = "Table" /\ Len(built.sources) = 0
              => res = Err("EmptySources")
        /\ built.kind = "Table" /\ Len(built.sources) > 0 /\ Len(built.destinations) = 0
              => res = Err("EmptyDestinations")

\* A Table build with no sources, no destinations and a non-positive fallback
\* speed set has returned EmptySources.
C2_Witness ==
    /\ built.kind = "Table"
    /\ built.sources = <<>> /\ built.destinations = <<>>
    /\ IsSome(built.fallback_speed) /\ FLe(Unwrap(built.fallback_speed), Num(0))
    /\ res = Err("EmptySources")

\* The builder a service's new(points) returns.
FreshBuilder(k, points) ==
    CASE k = "Route" -> RouteBuilderNew(points)
      [] k = "Trip" -> TripBuilderNew(points)
      [] k = "Match" -> MatchBuilderNew(points)

\* C3 as stated: a Route, Trip or Match builder created with exactly 2 points
\* and no other setter call builds successfully.
C3_TwoPointsBuild ==
    BuildCalled /\ built.kind \in PointServices /\ Len(built.points) = 2
        /\ built = FreshBuilder(built.kind, built.points)
      => res.kind = "Ok"

\* C3, amended: a Route or Trip builder created with exactly 2 points and no
\* other setter call builds successfully; a Match builder so created fails
\* with TimestampsRequiredForSplitBehaviour, and builds successfully once the
\* only change made to it is gaps = Ignore.
C3_TwoPointsBuildAmended ==
    BuildCalled /\ built.kind \in PointServices /\ Len(built.points) = 2 =>
        /\ built.kind \in {"Route", "Trip"}
              /\ built = FreshBuilder(built.kind, built.points)
              => res.kind = "Ok"
        /\ built.kind = "Match" /\ built = MatchBuilderNew(built.points)
              => res = Err("TimestampsRequiredForSplitBehaviour")
        /\ built.kind = "Match"
              /\ built = [MatchBuilderNew(built.points) EXCEPT !.gaps = "Ignore"]
              => res.kind = "Ok"

\* A Match builder fresh from new with 2 points has been built and refused.
C3_Witness ==
    /\ built.kind = "Match"
    /\ built = MatchBuilderNew(<<Pt(1), Pt(2)>>)
    /\ res.kind = "Err"

\* C4: a per-point array option set with a length other than that of the
\* point array it modulates makes build fail, with DimensionMismatch tagged
\* with that option when the rest of the builder is valid; DimensionMismatch
\* is returned only with the tag of an option of the wrong length, so arrays
\* of the right length never cause it. A Table source_* option is measured
\* against the sources and a destination_* option against the destinations.
C4_DimensionMismatch ==
    BuildCalled =>
        /\ \A o \in PerPoint(built.kind) :
              WrongLength(built, o) =>
                  /\ res.kind = "Err"
                  /\ ~Violates(Without(built, o[1])) => res = ErrDim(o[2])
        /\ res.kind = "Err" /\ res.err = "DimensionMismatch" =>
              \E o \in PerPoint(built.kind) : WrongLength(built, o) /\ o[2] = res.tag
        /\ ~Violates(built) => res.kind = "Ok"

\* A Table build whose source hints have the destinations' length, not the
\* sources', has returned DimensionMismatch(Hints).
C4_Witness ==
    /\ built.kind = "Table"
    /\ Len(built.sources) # Len(built.destinations)
    /\ IsSome(built.source_hints)
    /\ Len(Unwrap(built.source_hints)) = Len(built.destinations)
    /\ res = ErrDim("Hints")

\* Some present value of a radius array option is below 0.
Negative(o) == \E x \in PresentRadii(o) : FLt(x, Num(0))

C6_ExcludeHomogeneous ==
    BuildCalled =>
        /\ MixedExclude(built.exclude) => res.kind = "Err"
        /\ MixedExclude(built.exclude) /\ ~Violates(Without(built, "exclude"))
              => res = Err("DifferentExcludeTypes")
        /\ ~MixedExclude(built.exclude) => res # Err("DifferentExcludeTypes")
        /\ ~MixedExclude(built.exclude) /\ ~Violates(Without(built, "exclude"))
              => res.kind = "Ok"

\* A Nearest build with a Bicycle class followed by a Car class has returned
\* DifferentExcludeTypes.
C6_Witness ==
    /\ built.kind = "Nearest"
    /\ IsSome(built.exclude)
    /\ Len(Unwrap(built.exclude)) = 2
    /\ Unwrap(built.exclude)[1].mode = "Bicycle"
    /\ Unwrap(built.exclude)[2].mode = "Car"
    /\ res = Err("DifferentExcludeTypes")

\* C7: a Match builder with at least 2 points whose other rules hold builds
\* successfully exactly when timestamps are unset and gaps is Ignore, or
\* timestamps are set, as many as the points, and non-decreasing. Otherwise
\* it fails with TimestampsRequiredForSplitBehaviour (unset, gaps Split),
\* DimensionMismatch(Timestamps) (other length) or TimestampsNotSorted (same
\* length, some timestamp smaller than its predecessor).
C7_MatchTimestamps ==
    BuildCalled /\ built.kind = "Match" /\ Len(built.points) >= 2
        /\ ~Violates([built EXCEPT !.timestamps = None, !.gaps = "Ignore"])
      =>
        LET t == built.timestamps
            n == Len(built.points)
        IN
        /\ res.kind = "Ok" <=>
              \/ ~IsSome(t) /\ built.gaps = "Ignore"
              \/ IsSome(t) /\ Len(Unwrap(t)) = n /\ ~Decreases(Unwrap(t))
        /\ ~IsSome(t) /\ built.gaps = "Split"
              => res = Err("TimestampsRequiredForSplitBehaviour")
        /\ IsSome(t) /\ Len(Unwrap(t)) # n => res = ErrDim("Timestamps")
        /\ IsSome(t) /\ Len(Unwrap(t)) = n /\ Decreases(Unwrap(t))
              => res = Err("TimestampsNotSorted")

\* A Match build with gaps left at Split and two equal timestamps for its two
\* points has succeeded.
C7_Witness ==
    /\ built.kind = "Match"
    /\ built.gaps = "Split"
    /\ IsSome(built.timestamps)
    /\ Len(Unwrap(built.timestamps)) = 2
    /\ Unwrap(built.timestamps)[1] = Unwrap(built.timestamps)[2]
    /\ res.kind = "Ok"

\* The indices of a waypoints list that are not below n.
OutOfBounds(w, n) == {x \in {w[i] : i \in 1..Len(w)} : x >= n}

\* C8: when a Match builder whose other rules hold has waypoints set, build
\* fails with EmptyWaypoints if the list is empty, and otherwise fails with
\* WaypointIndexOutOfBounds exactly when some index is >= the number of
\* points, reporting that number and the largest index of the list, and
\* succeeds when every index is in range. For any Match builder the two
\* errors are returned only for an empty list and for a list with such an
\* index.
C8_MatchWaypoints ==
    BuildCalled /\ built.kind = "Match" =>
        LET n == Len(built.points)
            set == IsSome(built.waypoints)
            rest == ~Violates(Without(built, "waypoints"))
        IN
        /\ res = Err("EmptyWaypoints") => set /\ Unwrap(built.waypoints) = <<>>
        /\ res.kind = "Err" /\ res.err = "WaypointIndexOutOfBounds" =>
              /\ set
              /\ res.len = n
              /\ res.idx \in OutOfBounds(Unwrap(built.waypoints), n)
              /\ \A x \in OutOfBounds(Unwrap(built.waypoints), n) : x <= res.idx
        /\ set /\ rest /\ Unwrap(built.waypoints) = <<>> => res = Err("EmptyWaypoints")
        /\ set /\ rest /\ OutOfBounds(Unwrap(built.waypoints), n) # {}
              => res.kind = "Err" /\ res.err = "WaypointIndexOutOfBounds"
        /\ set /\ rest /\ Unwrap(built.waypoints) # <<>>
              /\ OutOfBounds(Unwrap(built.waypoints), n) = {}
              => res.kind = "Ok"

\* A Match build over 2 points with waypoints <<0, 2>> has returned
\* WaypointIndexOutOfBounds(2, 2).
C8_Witness ==
    /\ built.kind = "Match"
    /\ Len(built.points) = 2
    /\ built.waypoints = Some(<<0, 2>>)
    /\ res = ErrWaypoint(2, 2)

\* The builder with no fallback set.
WithoutFallback(s) == [s EXCEPT !.fallback_speed = None, !.fallback_coordinate = None]

\* C9: a Table build fails with IncompleteFallbackPair when exactly one of
\* fallback speed and fallback coordinate is set and with
\* NonPositiveFallbackSpeed when a fallback speed <= 0 is set (the rest of
\* the builder being valid), and in every TableRequest build returns the
\* fallback speed is present exactly when the fallback coordinate is, and a
\* present speed is > 0.
C9_TableFallbackPair ==
    BuildCalled /\ built.kind = "Table" =>
        LET c == built.fallback_coordinate
            v == built.fallback_speed
            rest == ~Violates(WithoutFallback(built))
        IN
        /\ IsSome(v) /\ FLe(Unwrap(v), Num(0)) /\ rest
              => res = Err("NonPositiveFallbackSpeed")
        /\ IsSome(c) # IsSome(v) /\ (\A x \in v : FLt(Num(0), x)) /\ rest
              => res = Err("IncompleteFallbackPair")
        /\ res.kind = "Ok" =>
              /\ IsSome(res.req.fallback_speed) <=> IsSome(res.req.fallback_coordinate)
              /\ \A x \in res.req.fallback_speed : FLt(Num(0), x)

\* C10: on a Table builder whose other rules hold, a scale factor <= 0 makes
\* build fail with NonPositiveScaleFactor; any other scale factor with the
\* annotation mode None or Distance makes it fail with
\* ScaleFactorRequiresDuration; a scale factor > 0 with Duration or All is
\* accepted; with no scale factor every annotation mode is accepted. Whatever
\* the rest of the builder, the first two cases never build.
C10_TableScaleFactor ==
    BuildCalled /\ built.kind = "Table" =>
        LET f == built.scale_factor
            rest == ~Violates(Without(built, "scale_factor"))
        IN
        /\ IsSome(f) /\ FLe(Unwrap(f), Num(0)) => res.kind = "Err"
        /\ IsSome(f) /\ built.annotations \in {"None", "Distance"} => res.kind = "Err"
        /\ IsSome(f) /\ FLe(Unwrap(f), Num(0)) /\ rest
              => res = Err("NonPositiveScaleFactor")
        /\ IsSome(f) /\ ~FLe(Unwrap(f), Num(0)) /\ rest
              /\ built.annotations \in {"None", "Distance"}
              => res = Err("ScaleFactorRequiresDuration")
        /\ IsSome(f) /\ FLt(Num(0), Unwrap(f)) /\ rest
              /\ built.annotations \in {"Duration", "All"}
              => res.kind = "Ok"
        /\ ~IsSome(f) /\ rest => res.kind = "Ok"

\* A Table build with a scale factor > 0 and the Distance annotation mode has
\* returned ScaleFactorRequiresDuration.
C10_Witness ==
    /\ built.kind = "Table"
    /\ IsSome(built.scale_factor)
    /\ FLt(Num(0), Unwrap(built.scale_factor))
    /\ built.annotations = "Distance"
    /\ res = Err("ScaleFactorRequiresDuration")

----------------------------------------------------------------------------
\* The builder as new returned it, whatever its service.
IsFresh(s) ==
    CASE s.kind \in PointServices -> s = FreshBuilder(s.kind, s.points)
      [] s.kind = "Table" -> s = TableBuilderNew(s.sources, s.destinations)
      [] s.kind = "Nearest" -> s = NearestBuilderNew(s.point, s.number)
      [] OTHER -> FALSE

\* The documented defaults other than Trip's roundtrip.
DefaultsExceptRoundtrip(r) ==
    /\ r.snapping = None
    /\ r.exclude = None
    /\ r.kind \in PointServices =>
          /\ r.geometry = "Polyline"
          /\ r.overview = (IF r.kind = "Trip" THEN "False" ELSE "Simplified")
          /\ r.skip_waypoints = FALSE
    /\ r.kind # "Nearest" => r.generate_hints = TRUE
    /\ r.kind = "Match" => r.gaps = "Split"
    /\ r.kind = "Trip" => r.source = "Any" /\ r.destination = "Any"

\* C11: a request built from a builder on which no setter was called carries
\* the documented defaults: geometry Polyline, overview Simplified (False for
\* Trip), generate_hints true, gaps Split (Match), snapping and exclude
\* unset, skip_waypoints false, and for Trip roundtrip false, source Any and
\* destination Any.
C11_FreshDefaults ==
    BuildCalled /\ IsFresh(built) /\ res.kind = "Ok" =>
        /\ DefaultsExceptRoundtrip(res.req)
        /\ res.req.kind = "Trip" => res.req.roundtrip = FALSE

\* Every default of C11 but Trip's roundtrip is the one the request carries.
C11_OtherDefaults ==
    BuildCalled /\ IsFresh(built) /\ res.kind = "Ok" => DefaultsExceptRoundtrip(res.req)

----------------------------------------------------------------------------
\* C13: Point::new returns None whenever the latitude is outside [-90, 90]
\* or the longitude is outside [-180, 180] (a NaN is inside no range); for
\* every pair inside the ranges, the limits included, it returns a Point
\* whose latitude() and longitude() return exactly the values given.
InRange(lo, x, hi) == ~x.nan /\ lo <= x.v /\ x.v <= hi

C13_PointNew ==
    call.fn = "Point::new" =>
        IF InRange(-90, call.args[1], 90) /\ InRange(-180, call.args[2], 180)
        THEN /\ IsSome(call.out)
             /\ PointAccessors(Unwrap(call.out)) = call.args
        ELSE call.out = None

\* A point on both limits was accepted and reads back as given.
C13_Witness ==
    /\ call.fn = "Point::new"
    /\ call.args = <<Num(-90), Num(180)>>
    /\ IsSome(call.out)
    /\ PointAccessors(Unwrap(call.out)) = <<Num(-90), Num(180)>>

----------------------------------------------------------------------------
\* C14: Bearing::new returns None whenever the bearing is outside [0, 360]
\* or the range is outside [0, 180], either one alone being enough, and
\* returns a Bearing when both are inside their ranges.
C14_BearingNew ==
    call.fn = "Bearing::new" =>
        IF /\ 0 <= call.args[1] /\ call.args[1] <= 360
           /\ 0 <= call.args[2] /\ call.args[2] <= 180
        THEN call.out = Some([bearing |-> call.args[1], range |-> call.args[2]])
        ELSE call.out = None

\* C14, the part that holds: a pair inside both ranges gives a Bearing of
\* that pair, and a pair outside both ranges gives None.
C14_BothInOrBothOut ==
    call.fn = "Bearing::new" =>
        LET bIn == 0 <= call.args[1] /\ call.args[1] <= 360
            rIn == 0 <= call.args[2] /\ call.args[2] <= 180
        IN  /\ bIn /\ rIn =>
                  call.out = Some([bearing |-> call.args[1], range |-> call.args[2]])
            /\ ~bIn /\ ~rIn => call.out = None

----------------------------------------------------------------------------
----------------------------------------------------------------------------
\* C16: a payload that starts with the two characters "{ (a GeoJSON object
\* that was string-escaped) is decoded as a string and that string is then
\* decoded as a GeoJSON object: the result is the GeoJSON variant, not the
\* Polyline variant.
C16_EscapedGeoJson ==
    /\ call.fn = "Geometry::deserialize"
    /\ call.args[1].val.t = "string"
    /\ StartsWith([call.args[1] EXCEPT !.ws = 0], <<"\"", "{">>)
    /\ FromStrLineString(call.args[1].val.s).kind = "Ok"
    => call.out.kind = "Ok" /\ call.out.variant = "GeoJson"

----------------------------------------------------------------------------
\* C17: for a Route request with n points handed to the mock engine, the
\* response has code "Ok", the legs of all returned routes together number
\* n - 1, and the waypoints number n.
RECURSIVE TotalLegs(_)
TotalLegs(routes) ==
    IF routes = <<>> THEN 0 ELSE Len(Head(routes).legs) + TotalLegs(Tail(routes))

MockHandled(kind) == rcv.backend = "mock" /\ rcv.req.kind = kind

C17_MockRoute ==
    MockHandled("Route") =>
        /\ rcv.out.code = "Ok"
        /\ TotalLegs(rcv.out.routes) = Len(rcv.req.points) - 1
        /\ IsSome(rcv.out.waypoints)
        /\ Len(Unwrap(rcv.out.waypoints)) = Len(rcv.req.points)

\* C17, the part that holds: the code is "Ok" and there are n waypoints.
C17_CodeAndWaypoints ==
    MockHandled("Route") =>
        /\ rcv.out.code = "Ok"
        /\ IsSome(rcv.out.waypoints)
        /\ Len(Unwrap(rcv.out.waypoints)) = Len(rcv.req.points)

----------------------------------------------------------------------------
\* C18: for a Table request with S sources and D destinations handed to the
\* mock engine, the response has code "Ok", S source entries and D
\* destination entries; every matrix returned has S rows of D entries with
\* entry (i, i) equal to 0; durations is present exactly when the annotation
\* mode is Duration or All, distances exactly when it is Distance or All;
\* a request built without a setter call has durations and no distances.
IsTableMatrix(m, S, D) ==
    /\ Len(m) = S
    /\ \A i \in 1..S :
          /\ Len(m[i]) = D
          /\ i <= D => m[i][i] = Some(0)

C18_MockTable ==
    MockHandled("Table") =>
        LET S == Len(rcv.req.sources)
            D == Len(rcv.req.destinations)
            out == rcv.out
        IN  /\ out.code = "Ok"
            /\ IsSome(out.sources) /\ Len(Unwrap(out.sources)) = S
            /\ IsSome(out.destinations) /\ Len(Unwrap(out.destinations)) = D
            /\ IsSome(out.durations) <=> rcv.req.annotations \in {"Duration", "All"}
            /\ IsSome(out.distances) <=> rcv.req.annotations \in {"Distance", "All"}
            /\ IsSome(out.durations) => IsTableMatrix(Unwrap(out.durations), S, D)
            /\ IsSome(out.distances) => IsTableMatrix(Unwrap(out.distances), S, D)
            /\ nset = 0 => IsSome(out.durations) /\ out.distances = None

\* A table of one source and two destinations asked with distances only.
C18_Witness ==
    /\ MockHandled("Table")
    /\ Len(rcv.req.sources) = 1 /\ Len(rcv.req.destinations) = 2
    /\ rcv.req.annotations = "Distance"
    /\ rcv.out.durations = None
    /\ rcv.out.distances = Some(<<<<Some(0), Some(2)>>>>)

----------------------------------------------------------------------------
\* C19: the mock engine's response has the fields the request asks for:
\* no waypoints when skip_waypoints is set and waypoints otherwise, no
\* waypoint hints when generate_hints is off, no route geometry when
\* overview is False and otherwise the geometry in the encoding asked for
\* (a Polyline string for Polyline and Polyline6, a GeoJSON object for
\* GeoJSON), and an annotation on a leg exactly when annotations is set.
C19_MockFieldPresence ==
    MockHandled("Route") \/ MockHandled("Trip") =>
        LET req == rcv.req
            routes == IF req.kind = "Route" THEN rcv.out.routes ELSE rcv.out.trips
        IN  /\ IsSome(rcv.out.waypoints) <=> ~req.skip_waypoints
            /\ IsSome(rcv.out.waypoints) /\ ~req.generate_hints =>
                  \A i \in 1..Len(Unwrap(rcv.out.waypoints)) :
                      Unwrap(rcv.out.waypoints)[i].hint = None
            /\ \A i \in 1..Len(routes) :
                  /\ IsSome(routes[i].geometry) <=> req.overview # "False"
                  /\ IsSome(routes[i].geometry) =>
                        Unwrap(routes[i].geometry).variant =
                            IF req.geometry = "GeoJSON" THEN "GeoJson" ELSE "Polyline"
                  /\ \A k \in 1..Len(routes[i].legs) :
                        IsSome(routes[i].legs[k].annotation) <=> req.annotations

----------------------------------------------------------------------------
\* C20: every waypoint, table source or destination entry and tracepoint the
\* mock engine returns for an input point has location = [longitude,
\* latitude] of that point, the entries being in the order of the inputs.
LocatedAt(entries, points) ==
    /\ Len(entries) = Len(points)
    /\ \A i \in 1..Len(points) :
          entries[i].location = <<points[i].longitude, points[i].latitude>>

C20_MockLocations ==
    rcv.backend = "mock" =>
        CASE rcv.req.kind \in {"Route", "Trip"} ->
                LocatedAt(Unwrap(rcv.out.waypoints), rcv.req.points)
          [] rcv.req.kind = "Nearest" ->
                LocatedAt(rcv.out.waypoints, <<rcv.req.point>>)
          [] rcv.req.kind = "Match" ->
                LocatedAt([i \in 1..Len(rcv.out.tracepoints) |->
                              Unwrap(rcv.out.tracepoints[i])], rcv.req.points)
          [] rcv.req.kind = "Table" ->
                /\ LocatedAt(Unwrap(rcv.out.sources), rcv.req.sources)
                /\ LocatedAt(Unwrap(rcv.out.destinations), rcv.req.destinations)

\* C20, the part that holds: one entry per input point, in input order,
\* each holding the two coordinates of its point (latitude first).
C20_EntriesFollowInputs ==
    MockHandled("Route") =>
        /\ Len(Unwrap(rcv.out.waypoints)) = Len(rcv.req.points)
        /\ \A i \in 1..Len(rcv.req.points) :
              Unwrap(rcv.out.waypoints)[i].location =
                  <<rcv.req.points[i].latitude, rcv.req.points[i].longitude>>

----------------------------------------------------------------------------
\* C21: in every URL the remote engine builds, the coordinates are the
\* longitude,latitude pairs of the input points in input order, and every
\* per-point parameter that is sent has one segment per coordinate, in
\* coordinate order, an unset element being an empty segment at its own
\* position. For Table the coordinates are the sources followed by the
\* destinations, the index parameters are 0..S-1 and S..S+D-1, and a
\* bearings, radiuses, hints or approaches parameter has S + D segments
\* even when the array of one side only was supplied.
RemoteUrlBuilt(kind) ==
    rcv.backend = "remote" /\ rcv.req.kind = kind /\ rcv.out.service # "error"

LonLat(points) == [i \in 1..Len(points) |-> <<points[i].longitude, points[i].latitude>>]

BearingSeg(e) == IF e = None THEN <<>> ELSE <<Unwrap(e).bearing, Unwrap(e).range>>
RadiusSeg(e) == IF e = None THEN <<>> ELSE <<Unwrap(e)>>
HintSeg(e) == IF e = None THEN "" ELSE Unwrap(e)

\* The parameter is sent exactly when the option is set, one segment per
\* coordinate, segment i being that of element i.
Aligned(param, option, n, Seg(_)) ==
    /\ IsSome(param) <=> IsSome(option)
    /\ IsSome(param) =>
          /\ Len(Unwrap(param)) = n
          /\ \A i \in 1..n : Unwrap(param)[i] = Seg(Unwrap(option)[i])

\* Table: the parameter is sent when either side is set; the segments of
\* the sources come first, a side that is not set giving empty segments.
AlignedBoth(param, src, dst, S, D, Seg(_), empty) ==
    /\ IsSome(param) <=> IsSome(src) \/ IsSome(dst)
    /\ IsSome(param) =>
          /\ Len(Unwrap(param)) = S + D
          /\ \A i \in 1..S : Unwrap(param)[i] =
                                 IF IsSome(src) THEN Seg(Unwrap(src)[i]) ELSE empty
          /\ \A j \in 1..D : Unwrap(param)[S + j] =
                                 IF IsSome(dst) THEN Seg(Unwrap(dst)[j]) ELSE empty

C21_RemoteUrlAlignment ==
    /\ \A kind \in {"Route", "Trip", "Match"} :
          RemoteUrlBuilt(kind) =>
              LET req == rcv.req
                  url == rcv.out
                  n == Len(req.points)
              IN  /\ url.coordinates = LonLat(req.points)
                  /\ Aligned(url.bearings, req.bearings, n, BearingSeg)
                  /\ Aligned(url.radiuses, req.radiuses, n, RadiusSeg)
                  /\ Aligned(url.hints, req.hints, n, HintSeg)
                  /\ Aligned(url.approaches, req.approaches, n, UrlForm)
    /\ RemoteUrlBuilt("Match") =>
          Aligned(rcv.out.timestamps, rcv.req.timestamps, Len(rcv.req.points),
                  LAMBDA e : e)
    /\ RemoteUrlBuilt("Nearest") =>
          rcv.out.coordinates = LonLat(<<rcv.req.point>>)
    /\ RemoteUrlBuilt("Table") =>
          LET req == rcv.req
              url == rcv.out
              S == Len(req.sources)
              D == Len(req.destinations)
          IN  /\ url.coordinates = LonLat(req.sources) \o LonLat(req.destinations)
              /\ url.sources = [i \in 1..S |-> i - 1]
              /\ url.destinations = [j \in 1..D |-> S + j - 1]
              /\ AlignedBoth(url.bearings, req.source_bearings,
                             req.destination_bearings, S, D, BearingSeg, <<>>)
              /\ AlignedBoth(url.radiuses, req.source_radiuses,
                             req.destination_radiuses, S, D, RadiusSeg, <<>>)
              /\ AlignedBoth(url.hints, req.source_hints,
                             req.destination_hints, S, D, HintSeg, "")
              /\ AlignedBoth(url.approaches, req.source_approaches,
                             req.destination_approaches, S, D, UrlForm, "")

\* A table URL of two sources and one destination with bearings supplied
\* for the sources only: three segments, the first and the last empty.
C21_Witness ==
    /\ RemoteUrlBuilt("Table")
    /\ Len(rcv.req.sources) = 2 /\ Len(rcv.req.destinations) = 1
    /\ IsSome(rcv.req.source_bearings) /\ rcv.req.destination_bearings = None
    /\ rcv.out.bearings = Some(<<<<>>, <<0, 180>>, <<>>>>)

----------------------------------------------------------------------------
\* C22: every option field of a request reaches the engine on both real
\* backends: changing one option of the request handed over (a flag, the
\* geometry or overview, the snapping) changes the URL the remote engine
\* builds and the arguments of the native engine's call. An unset snapping
\* and Snapping::Default are taken as the same setting.
FlagFields(kind) ==
    CASE kind = "Route" -> {"alternatives", "steps", "annotations",
                            "continue_straight", "generate_hints", "skip_waypoints"}
      [] kind = "Trip" -> {"steps", "annotations", "roundtrip",
                           "generate_hints", "skip_waypoints"}
      [] kind = "Match" -> {"steps", "annotations", "tidy",
                            "generate_hints", "skip_waypoints"}
      [] kind = "Table" -> {"generate_hints"}
      [] kind = "Nearest" -> {}

RealBackendCalled ==
    rcv.backend \in {"remote", "native"} /\ rcv.out.service # "error"

C22_EveryOptionTransmitted ==
    RealBackendCalled =>
        LET req == rcv.req
            Sent(r) == Handled(rcv.backend, r)
            Effective(o) == IF IsSome(o) THEN Unwrap(o) ELSE "Default"
        IN  /\ \A f \in FlagFields(req.kind) :
                  Sent([req EXCEPT ![f] = ~@]) # Sent(req)
            /\ \A v \in {None} \cup {Some(x) : x \in Snapping} :
                  Effective(v) # Effective(req.snapping) =>
                      Sent([req EXCEPT !.snapping = v]) # Sent(req)
            /\ req.kind \in {"Route", "Trip", "Match"} =>
                  /\ \A g \in GeometryType \ {req.geometry} :
                        Sent([req EXCEPT !.geometry = g]) # Sent(req)
                  /\ \A z \in OverviewZoom \ {req.overview} :
                        Sent([req EXCEPT !.overview = z]) # Sent(req)

\* C22 without the options that are dropped: Route continue_straight on the
\* remote engine, Match snapping and skip_waypoints on the native engine.
C22_OtherOptionsTransmitted ==
    RealBackendCalled =>
        LET req == rcv.req
            Sent(r) == Handled(rcv.backend, r)
            Effective(o) == IF IsSome(o) THEN Unwrap(o) ELSE "Default"
            Dropped(f) ==
                \/ rcv.backend = "remote" /\ req.kind = "Route" /\ f = "continue_straight"
                \/ rcv.backend = "native" /\ req.kind = "Match"
                      /\ f \in {"snapping", "skip_waypoints"}
        IN  /\ \A f \in FlagFields(req.kind) :
                  ~Dropped(f) => Sent([req EXCEPT ![f] = ~@]) # Sent(req)
            /\ \A v \in {None} \cup {Some(x) : x \in Snapping} :
                  Effective(v) # Effective(req.snapping) /\ ~Dropped("snapping") =>
                      Sent([req EXCEPT !.snapping = v]) # Sent(req)
            /\ req.kind \in {"Route", "Trip", "Match"} =>
                  /\ \A g \in GeometryType \ {req.geometry} :
                        Sent([req EXCEPT !.geometry = g]) # Sent(req)
                  /\ \A z \in OverviewZoom \ {req.overview} :
                        Sent([req EXCEPT !.overview = z]) # Sent(req)

----------------------------------------------------------------------------
\* The answer of the engine, as the service that was called decodes it: the
\* exchange went through (HTTP call and body read for the remote engine;
\* status zero and a readable, non-null message for the native one).
ExchangeOk(fn, answer) ==
    IF fn = "remote"
    THEN answer.call = "Ok" /\ answer.read = "Ok"
    ELSE answer.code = 0 /\ ~answer.message.null /\ answer.message.utf8
Body(fn, answer) ==
    IF fn = "remote" THEN answer.body ELSE answer.message.text

\* C23: a remote call whose HTTP exchange succeeds but whose body does not
\* decode into the response model returns Remote(JsonParse); a failed HTTP
\* call or a failed read of the body returns Remote(EndpointError); the two
\* are different errors.
C23_RemoteDecodeFailure ==
    call.fn = "remote" =>
        IF ExchangeOk("remote", call.answer)
        THEN FromStr(call.service, call.answer.body).kind = "Err" =>
                /\ call.out.kind = "Err"
                /\ call.out.err = "Remote"
                /\ call.out.remote = "JsonParse"
        ELSE /\ call.out.kind = "Err"
             /\ call.out.err = "Remote"
             /\ call.out.remote = "EndpointError"

\* What does hold of the remote services: every failure, of the exchange or
\* of the decoding, is Remote(EndpointError), and a body of the response
\* model is returned decoded.
C23_RemoteFailuresAreEndpointErrors ==
    call.fn = "remote" =>
        IF ExchangeOk("remote", call.answer)
              /\ FromStr(call.service, call.answer.body).kind = "Ok"
        THEN call.out = [kind |-> "Ok", response |-> call.answer.body]
        ELSE /\ call.out.kind = "Err"
             /\ call.out.err = "Remote"
             /\ call.out.remote = "EndpointError"

\* C24: for every native service call, a non-zero status yields an
\* OsrmError::Native that carries the engine's message text; status zero with
\* a null or empty payload yields OsrmError::EmptyResponse (neither a native
\* FFI error nor a decode error); status zero with a non-empty payload is
\* decoded, and a payload that is not the JSON of the response model yields
\* Native(JsonParse).
C24_NativeStatusHandling ==
    call.fn = "native" =>
        LET result == call.answer
            m == result.message
        IN  /\ result.code # 0 =>
                  /\ call.out.kind = "Err"
                  /\ call.out.err = "Native"
                  /\ ~m.null /\ m.utf8 => call.out.msg.text = m.text
            /\ result.code = 0 /\ (m.null \/ (m.utf8 /\ m.text.doc = "empty")) =>
                  /\ call.out.kind = "Err"
                  /\ call.out.err = "EmptyResponse"
            /\ result.code = 0 /\ ~m.null /\ m.utf8 /\ m.text.doc # "empty" =>
                  IF FromStr(call.service, m.text).kind = "Ok"
                  THEN call.out.kind = "Ok" /\ call.out.response = m.text
                  ELSE /\ call.out.kind = "Err"
                       /\ call.out.err = "Native"
                       /\ call.out.native = "JsonParse"

\* What does hold of the native services: the two other parts of C24, and a
\* null payload reported as Native(FfiError), an empty one as
\* Native(JsonParse).
C24_NativeStatusHandlingAsCoded ==
    call.fn = "native" =>
        LET result == call.answer
            m == result.message
        IN  /\ result.code # 0 =>
                  /\ call.out.kind = "Err"
                  /\ call.out.err = "Native"
                  /\ ~m.null /\ m.utf8 => call.out.msg.text = m.text
            /\ m.null => call.out.kind = "Err" /\ call.out.native = "FfiError"
            /\ result.code = 0 /\ ~m.null /\ m.utf8 =>
                  IF FromStr(call.service, m.text).kind = "Ok"
                  THEN call.out.kind = "Ok" /\ call.out.response = m.text
                  ELSE /\ call.out.kind = "Err"
                       /\ call.out.err = "Native"
                       /\ call.out.native = "JsonParse"

\* Sum of a field over the legs of a route.
LegSum(route, field) ==
    LET s[i \in 0..Len(route.legs)] ==
            IF i = 0 THEN 0 ELSE s[i - 1] + route.legs[i][field]
    IN  s[Len(route.legs)]

\* C25: on every backend, simple_route returns the EmptyResponse error when
\* the engine answers successfully with an empty list of routes; it never
\* aborts the program; when at least one route is returned, distance and
\* duration are the sums over the legs of the first route.
C25_SimpleRouteEmptyResponse ==
    call.fn = "simple_route" =>
        /\ call.out.kind # "Panic"
        /\ call.backend \in {"native", "remote"}
              /\ ExchangeOk(call.backend, call.answer)
              /\ FromStr("Route", Body(call.backend, call.answer)).kind = "Ok" =>
                 LET routes == Body(call.backend, call.answer).routes IN
                 IF routes = <<>>
                 THEN call.out.kind = "Err" /\ call.out.err = "EmptyResponse"
                 ELSE /\ call.out.kind = "Ok"
                      /\ call.out.distance = LegSum(routes[1], "distance")
                      /\ call.out.durations = LegSum(routes[1], "duration")

\* C25 on the native engine alone, where it holds.
C25_NativeSimpleRoute ==
    call.fn = "simple_route" /\ call.backend = "native" =>
        /\ call.out.kind # "Panic"
        /\ ExchangeOk("native", call.answer)
              /\ FromStr("Route", call.answer.message.text).kind = "Ok" =>
                 LET routes == call.answer.message.text.routes IN
                 IF routes = <<>>
                 THEN call.out.kind = "Err" /\ call.out.err = "EmptyResponse"
                 ELSE /\ call.out.kind = "Ok"
                      /\ call.out.distance = LegSum(routes[1], "distance")
                      /\ call.out.durations = LegSum(routes[1], "duration")

\* Uses of the message pointer by a native call.
NativeCallMade ==
    \/ call.fn = "native"
    \/ call.fn = "simple_route" /\ call.backend = "native"
Count(ops, what) == Cardinality({i \in 1..Len(ops) : ops[i] = what})

\* C27: in every native service call a non-null message is released with
\* osrm_free_string exactly once before the call returns, on every exit path
\* (success, non-zero status, payload that is not valid UTF-8); a null message
\* is never passed to osrm_free_string; the message is not read after its
\* release.
C27_MessageReleasedOnce ==
    NativeCallMade =>
        LET ops == call.out.ops IN
        /\ ~call.answer.message.null => Count(ops, "free") = 1
        /\ call.answer.message.null => Count(ops, "free") = 0
        /\ \A i, j \in 1..Len(ops) : ops[i] = "free" /\ i < j => ops[j] = "free"

\* C27 apart from the payload that is not valid UTF-8, which is the one exit
\* that leaves the message unreleased.
C27_ReleasedOnceWhenUtf8 ==
    NativeCallMade =>
        LET ops == call.out.ops
            m == call.answer.message
        IN  /\ ~m.null /\ m.utf8 => Count(ops, "free") = 1
            /\ ~m.null /\ ~m.utf8 => Count(ops, "free") = 0
            /\ m.null => Count(ops, "free") = 0
            /\ \A i, j \in 1..Len(ops) : ops[i] = "free" /\ i < j => ops[j] = "free"

----------------------------------------------------------------------------
\* A flattened per-point buffer against the option array it comes from: the
\* buffer has n entries, an element that is set is at its index, an unset
\* one is the sentinel at that index. off is where the array starts in the
\* buffer (0, or the number of sources for Table's destination side).
FlattenedAt(buffer, option, off, len, sentinel) ==
    \A i \in 1..len :
        IF IsSome(option) /\ i <= Len(Unwrap(option)) /\ IsSome(Unwrap(option)[i])
        THEN buffer[off + i] = Unwrap(Unwrap(option)[i])
        ELSE buffer[off + i] = sentinel

\* The coordinate buffer holds longitude then latitude of each point, in
\* input order.
CoordinateBuffer(buffer, points) ==
    /\ Len(buffer) = 2 * Len(points)
    /\ \A i \in 1..Len(points) :
          /\ buffer[2 * i - 1] = points[i].longitude
          /\ buffer[2 * i] = points[i].latitude

\* C28 with the radius sentinel of Table left open: tableRadius is the value
\* an unset Table radius is expected to be sent as.
NativeBuffers(tableRadius) ==
    rcv.backend = "native" /\ rcv.req.kind \in {"Route", "Trip", "Match", "Table"} =>
        LET req == rcv.req
            out == rcv.out
        IN  IF req.kind = "Table"
            THEN LET S == Len(req.sources)
                     D == Len(req.destinations)
                     Sent(buffer, src, dst, sentinel) ==
                         buffer # <<>> =>
                             /\ Len(buffer) = out.num_coordinates
                             /\ FlattenedAt(buffer, src, 0, S, sentinel)
                             /\ FlattenedAt(buffer, dst, S, D, sentinel)
                 IN  /\ CoordinateBuffer(out.coordinates, req.sources \o req.destinations)
                     /\ out.num_coordinates = S + D
                     /\ Sent(out.bearings, req.source_bearings,
                             req.destination_bearings, DefaultBearing)
                     /\ Sent(out.radiuses, req.source_radiuses,
                             req.destination_radiuses, tableRadius)
                     /\ Sent(out.hints, req.source_hints, req.destination_hints, "")
                     /\ IsSome(req.source_bearings) \/ IsSome(req.destination_bearings)
                           => out.bearings # <<>>
                     /\ IsSome(req.source_radiuses) \/ IsSome(req.destination_radiuses)
                           => out.radiuses # <<>>
                     /\ IsSome(req.source_hints) \/ IsSome(req.destination_hints)
                           => out.hints # <<>>
            ELSE LET n == Len(req.points)
                     Sent(buffer, option, sentinel) ==
                         /\ IsSome(option) => buffer # <<>>
                         /\ buffer # <<>> =>
                               /\ Len(buffer) = out.num_coordinates
                               /\ FlattenedAt(buffer, option, 0, n, sentinel)
                 IN  /\ CoordinateBuffer(out.coordinates, req.points)
                     /\ out.num_coordinates = n
                     /\ Sent(out.bearings, req.bearings, DefaultBearing)
                     /\ Sent(out.radiuses, req.radiuses, Infinity)
                     /\ Sent(out.hints, req.hints, "")

\* C28: when the native backend flattens per-point options, an element left
\* unset at index i is sent as the sentinel at index i (infinite radius,
\* default bearing, empty hint), and every buffer that is sent has one entry
\* per coordinate of the coordinate buffer (longitude then latitude of each
\* point in input order); for Route, Trip, Match and for Table's combined
\* sources-then-destinations buffers, the side not supplied included.
C28_NativeSentinels == NativeBuffers(Infinity)

\* C28 as the code has it: an unset Table radius is sent as 0.0.
C28_NativeSentinelsTableZero == NativeBuffers(Num(0))

----------------------------------------------------------------------------
\* The rules of a builder in the order build is said to check them, each
\* with the error it reports: <<rule is broken, error>>. A radius rule is
\* broken by a present value that is not >= 0, the fallback speed and scale
\* factor rules by a value that is not > 0 ("must be non-negative", "must be
\* greater than 0.0").
RadiusBroken(o) == \E x \in PresentRadii(o) : ~FGe(x, Num(0))
NotPositive(o) == IsSome(o) /\ ~FLt(Num(0), Unwrap(o))
LargestOf(t) == CHOOSE m \in {t[i] : i \in 1..Len(t)} : \A i \in 1..Len(t) : t[i] <= m

ArrayRules(s) ==
    <<  <<WrongLength(s, <<"bearings", "Bearings", "points">>), ErrDim("Bearings")>>,
        <<WrongLength(s, <<"radiuses", "Radiuses", "points">>), ErrDim("Radiuses")>>,
        <<RadiusBroken(s.radiuses), Err("NegativeRadius")>>,
        <<WrongLength(s, <<"hints", "Hints", "points">>), ErrDim("Hints")>>,
        <<WrongLength(s, <<"approaches", "Approaches", "points">>), ErrDim("Approaches")>>,
        <<MixedExclude(s.exclude), Err("DifferentExcludeTypes")>>  >>

RulesInOrder(s) ==
    CASE s.kind \in {"Route", "Trip"} ->
            << <<Len(s.points) < 2, Err("InsufficientPoints")>> >> \o ArrayRules(s)
      [] s.kind = "Match" ->
            <<  <<Len(s.points) < 2, Err("InsufficientPoints")>>,
                <<WrongLength(s, <<"timestamps", "Timestamps", "points">>),
                  ErrDim("Timestamps")>>,
                <<IsSome(s.timestamps) /\ Decreases(Unwrap(s.timestamps)),
                  Err("TimestampsNotSorted")>>,
                <<~IsSome(s.timestamps) /\ s.gaps = "Split",
                  Err("TimestampsRequiredForSplitBehaviour")>>,
                <<IsSome(s.waypoints) /\ Unwrap(s.waypoints) = <<>>,
                  Err("EmptyWaypoints")>>,
                <<IsSome(s.waypoints)
                     /\ \E i \in 1..Len(Unwrap(s.waypoints)) :
                           Unwrap(s.waypoints)[i] >= Len(s.points),
                  IF IsSome(s.waypoints) /\ Unwrap(s.waypoints) # <<>>
                  THEN ErrWaypoint(LargestOf(Unwrap(s.waypoints)), Len(s.points))
                  ELSE Err("EmptyWaypoints")>>  >> \o ArrayRules(s)
      [] s.kind = "Table" ->
            <<  <<s.sources = <<>>, Err("EmptySources")>>,
                <<s.destinations = <<>>, Err("EmptyDestinations")>>,
                <<NotPositive(s.fallback_speed), Err("NonPositiveFallbackSpeed")>>,
                <<NotPositive(s.scale_factor), Err("NonPositiveScaleFactor")>>,
                <<IsSome(s.fallback_speed) # IsSome(s.fallback_coordinate),
                  Err("IncompleteFallbackPair")>>,
                <<IsSome(s.scale_factor) /\ s.annotations \in {"None", "Distance"},
                  Err("ScaleFactorRequiresDuration")>>,
                <<WrongLength(s, <<"source_bearings", "Bearings", "sources">>),
                  ErrDim("Bearings")>>,
                <<WrongLength(s, <<"destination_bearings", "Bearings", "destinations">>),
                  ErrDim("Bearings")>>,
                <<WrongLength(s, <<"source_radiuses", "Radiuses", "sources">>),
                  ErrDim("Radiuses")>>,
                <<RadiusBroken(s.source_radiuses), Err("NegativeRadius")>>,
                <<WrongLength(s, <<"destination_radiuses", "Radiuses", "destinations">>),
                  ErrDim("Radiuses")>>,
                <<RadiusBroken(s.destination_radiuses), Err("NegativeRadius")>>,
                <<WrongLength(s, <<"source_hints", "Hints", "sources">>),
                  ErrDim("Hints")>>,
                <<WrongLength(s, <<"destination_hints", "Hints", "destinations">>),
                  ErrDim("Hints")>>,
                <<WrongLength(s, <<"source_approaches", "Approaches", "sources">>),
                  ErrDim("Approaches")>>,
                <<WrongLength(s, <<"destination_approaches", "Approaches", "destinations">>),
                  ErrDim("Approaches")>>,
                <<MixedExclude(s.exclude), Err("DifferentExcludeTypes")>>  >>
      [] s.kind = "Nearest" ->
            <<  <<MixedExclude(s.exclude), Err("DifferentExcludeTypes")>>,
                <<IsSome(s.radius) /\ ~FGe(Unwrap(s.radius), Num(0)),
                  Err("NegativeRadius")>>  >>

\* The rules of s that are broken, by position in the order.
Broken(s) == {i \in 1..Len(RulesInOrder(s)) : RulesInOrder(s)[i][1]}
Earliest(I) == CHOOSE i \in I : \A j \in I : i <= j

\* C29: build reports exactly one error, that of the first broken rule in
\* the fixed order of its service (Route/Trip: point count, bearings length,
\* radiuses length, negative radius, hints length, approaches length,
\* exclude; Match: point count, timestamps length, order, required for Split,
\* waypoints empty, out of bounds, then the arrays and exclude; Table: empty
\* sources, empty destinations, fallback speed, scale factor, incomplete
\* fallback pair, scale factor without duration, the source and destination
\* arrays, exclude; Nearest: exclude, then radius), and succeeds when no rule
\* is broken; the result is a function of the builder's fields.
C29_FirstViolatedRule ==
    BuildCalled =>
        IF Broken(built) = {}
        THEN res.kind = "Ok"
        ELSE res = RulesInOrder(built)[Earliest(Broken(built))][2]

\* The values on which a test of build and the rule it enforces differ: a
\* NaN radius of Nearest (C1), a NaN fallback speed (C9) or scale factor of
\* Table.
NaNSlips(s) ==
    \/ s.kind = "Nearest" /\ IsSome(s.radius) /\ Unwrap(s.radius).nan
    \/ s.kind = "Table" /\ IsSome(s.fallback_speed) /\ Unwrap(s.fallback_speed).nan
    \/ s.kind = "Table" /\ IsSome(s.scale_factor) /\ Unwrap(s.scale_factor).nan

\* The order of C29 on every builder without such a value.
C29_OrderApartFromNaN ==
    BuildCalled /\ ~NaNSlips(built) =>
        IF Broken(built) = {}
        THEN res.kind = "Ok"
        ELSE res = RulesInOrder(built)[Earliest(Broken(built))][2]

----------------------------------------------------------------------------
\* A payload that starts with { and is no decodable GeoJSON object for a
\* reason of syntax: text that is not JSON, or an object holding a value the
\* typed parser reports as a syntax error.
MalformedObject(raw) ==
    \/ raw.val.t = "chars" /\ raw.val.chars # <<>> /\ raw.val.chars[1] = "{"
    \/ raw.val.t = "object" /\ "fault" \in DOMAIN raw.val

\* C30: decoding a geometry payload that starts with { and is malformed
\* always returns an error value carrying the line, the column and an excerpt
\* of up to 20 bytes either side of the error's offset; for every error
\* position, one within the first 20 bytes and one for which
\* get_index_of_line_col returns None included, the decoder never aborts.
C30_MalformedGeoJsonError ==
    call.fn = "Geometry::deserialize" /\ MalformedObject(call.args[1]) =>
        /\ call.out.kind = "Err"
        /\ {"line", "column", "excerpt"} \subseteq DOMAIN call.out
        /\ Len(call.out.excerpt) <= 2 * MaxExcerpt

\* What the decoder does on such a payload: text that is not JSON is refused
\* before the branch on { is reached, with the error of the outer
\* deserializer; a syntax error of the typed parser gives the error with
\* line, column and excerpt only when its offset is found and is at least 20,
\* and aborts otherwise.
C30_MalformedGeoJsonAsCoded ==
    call.fn = "Geometry::deserialize" /\ MalformedObject(call.args[1]) =>
        LET v == call.args[1].val IN
        IF v.t = "chars" THEN call.out = [kind |-> "Err", msg |-> "RawValue"]
        ELSE LET index == GetIndexOfLineCol(v.text, v.fault.line, v.fault.column) IN
             IF index = None \/ Unwrap(index) < MaxExcerpt
             THEN call.out.kind = "Panic"
             ELSE /\ call.out.kind = "Err"
                  /\ call.out.line = v.fault.line /\ call.out.column = v.fault.column
                  /\ Len(call.out.excerpt) <= 2 * MaxExcerpt
                  /\ \E k \in 0..Len(v.text) :
                        call.out.excerpt = SubSeq(v.text, k + 1, k + Len(call.out.excerpt))

\* The decoder has produced the error with a full excerpt, 20 bytes either
\* side of the offset.
C30_ExcerptReached ==
    /\ call.fn = "Geometry::deserialize"
    /\ call.out.kind = "Err" /\ "excerpt" \in DOMAIN call.out
    /\ Len(call.out.excerpt) = 2 * MaxExcerpt

----------------------------------------------------------------------------
\* The lifecycle of the handle as C26 states it.
HandleLifecycle ==
    /\ osrm.created <= 1
    /\ osrm.result = "Initialization" =>
          /\ osrm.destroyed = 0
          /\ \A e \in DOMAIN osrm.owners : osrm.owners[e] = "none"
    /\ osrm.destroyed <= 1
    /\ (\E e \in DOMAIN osrm.owners : osrm.owners[e] = "dropped") => osrm.destroyed = 1
    /\ ~osrm.stale

C26_LifecycleWithoutClone == ~osrm.cloned => HandleLifecycle

\* A thread is inside a query while the engine value it does not borrow has
\* been dropped.
C26_QueryAfterDrop ==
    /\ osrm.destroyed = 1
    /\ \E t \in DOMAIN osrm.threads : osrm.threads[t] # "idle"

====
